---- MODULE Spec2Model ----
(***************************************************************************)
(* Model of the bermudafunk on-air dispatcher (bermudafunk/dispatcher) on  *)
(* top of a SymNet selector controller (bermudafunk/SymNet.py).            *)
(*                                                                         *)
(* Names (of states, triggers, timer tokens) are sequences of the words    *)
(* that the source joins with '_': 'studio_X_on_air' is                    *)
(* <<"studio","X","on","air">>.  The source's substring test               *)
(* `token in name` is Contains(token, name).                               *)
(*                                                                         *)
(* The asyncio event loop is modelled by its FIFO of ready callbacks       *)
(* (`ready`): a handler runs to completion when it is taken from the head. *)
(***************************************************************************)
EXTENDS Integers, Sequences, FiniteSets, TLC

None == "none"

\* ------------------------------------------------------------ configuration
Studios == {"A", "B", "C"}
Buttons == {"TAKEOVER", "RELEASE", "IMMEDIATE"}

automat_selector_value == 1
position_count == 4
studios_to_selector_value == [s \in Studios |-> CASE s = "A" -> 2 [] s = "B" -> 3 [] OTHER -> 4]

\* ------------------------------------------------------------------- bounds
\* most unfinished timer tasks of one kind while load() may still be called
MaxTasks == 2
\* most _set_current_state tasks waiting in the loop while the keepalive loop
\* may add another one
MaxSetTasks == 2
\* most callbacks waiting in the loop when load() is called
MaxReadyAtLoad == 1

\* ------------------------------------------------------------------- states
AUTOMAT_ON_AIR == <<"automat", "on", "air">>
AUTOMAT_ON_AIR_IMMEDIATE_STATE_X == <<"automat", "on", "air", "immediate", "state", "X">>
FROM_AUTOMAT_CHANGE_TO_STUDIO_X_ON_NEXT_HOUR == <<"from", "automat", "change", "to", "studio", "X", "on", "next", "hour">>
STUDIO_X_ON_AIR == <<"studio", "X", "on", "air">>
FROM_STUDIO_X_CHANGE_TO_AUTOMAT_ON_NEXT_HOUR == <<"from", "studio", "X", "change", "to", "automat", "on", "next", "hour">>
STUDIO_X_ON_AIR_IMMEDIATE_STATE == <<"studio", "X", "on", "air", "immediate", "state">>
STUDIO_X_ON_AIR_IMMEDIATE_RELEASE == <<"studio", "X", "on", "air", "immediate", "release">>
FROM_STUDIO_X_CHANGE_TO_STUDIO_Y_ON_NEXT_HOUR == <<"from", "studio", "X", "change", "to", "studio", "Y", "on", "next", "hour">>
STUDIO_X_ON_AIR_STUDIO_Y_TAKEOVER_REQUEST == <<"studio", "X", "on", "air", "studio", "Y", "takeover", "request">>
NOOP == <<"noop">>

States == {AUTOMAT_ON_AIR, AUTOMAT_ON_AIR_IMMEDIATE_STATE_X,
           FROM_AUTOMAT_CHANGE_TO_STUDIO_X_ON_NEXT_HOUR, STUDIO_X_ON_AIR,
           FROM_STUDIO_X_CHANGE_TO_AUTOMAT_ON_NEXT_HOUR, STUDIO_X_ON_AIR_IMMEDIATE_STATE,
           STUDIO_X_ON_AIR_IMMEDIATE_RELEASE, FROM_STUDIO_X_CHANGE_TO_STUDIO_Y_ON_NEXT_HOUR,
           STUDIO_X_ON_AIR_STUDIO_Y_TAKEOVER_REQUEST, NOOP}

\* Python's `tok in name` on the joined strings
Contains(tok, name) ==
    \E i \in 1..(Len(name) - Len(tok) + 1) : SubSeq(name, i, i + Len(tok) - 1) = tok

\* ------------------------------------------------------------- LED recipes
OFF == "OFF"
ON == "ON"
BLINK == "BLINK"

AllOff == <<OFF, OFF, OFF>>

\* (green, yellow, red) per role
led_state_target(s) ==
    CASE s = AUTOMAT_ON_AIR_IMMEDIATE_STATE_X -> [x |-> <<OFF, OFF, ON>>, y |-> AllOff, other |-> AllOff]
      [] s = FROM_AUTOMAT_CHANGE_TO_STUDIO_X_ON_NEXT_HOUR -> [x |-> <<BLINK, OFF, OFF>>, y |-> AllOff, other |-> AllOff]
      [] s = STUDIO_X_ON_AIR -> [x |-> <<ON, OFF, OFF>>, y |-> AllOff, other |-> AllOff]
      [] s = FROM_STUDIO_X_CHANGE_TO_AUTOMAT_ON_NEXT_HOUR -> [x |-> <<ON, BLINK, OFF>>, y |-> AllOff, other |-> AllOff]
      [] s = STUDIO_X_ON_AIR_IMMEDIATE_STATE -> [x |-> <<ON, OFF, ON>>, y |-> AllOff, other |-> AllOff]
      [] s = STUDIO_X_ON_AIR_IMMEDIATE_RELEASE -> [x |-> <<ON, BLINK, ON>>, y |-> AllOff, other |-> <<OFF, BLINK, BLINK>>]
      [] s = FROM_STUDIO_X_CHANGE_TO_STUDIO_Y_ON_NEXT_HOUR -> [x |-> <<ON, ON, OFF>>, y |-> <<BLINK, OFF, OFF>>, other |-> AllOff]
      [] s = STUDIO_X_ON_AIR_STUDIO_Y_TAKEOVER_REQUEST -> [x |-> <<ON, BLINK, OFF>>, y |-> <<OFF, ON, OFF>>, other |-> AllOff]
      [] OTHER -> [x |-> AllOff, y |-> AllOff, other |-> AllOff]

\* ------------------------------------------------------------------ timers
NEXT_HOUR == <<"next", "hour">>
IMMEDIATE_STATE == <<"immediate", "state">>
IMMEDIATE_RELEASE == <<"immediate", "release">>

TimerKinds == {NEXT_HOUR, IMMEDIATE_STATE, IMMEDIATE_RELEASE}

\* the trigger a timer task of that kind fires
TimerTrigger(k) == IF k = NEXT_HOUR THEN k ELSE k \o <<"timeout">>


\* --------------------------------------------------------------- triggers
\* event.button.name + '_X' / '_Y'
ButtonTrigger(button, append) == <<button>> \o append

\* the machine's automatic 'to_<state>' trigger
ToTrigger(s) == <<"to">> \o s

\* The transition table `transitions` imported by the dispatcher: the rows the
\* specification's scenarios and state descriptions give.
transitions ==
    { [trigger |-> <<"TAKEOVER", "X">>, source |-> AUTOMAT_ON_AIR,
       dest |-> FROM_AUTOMAT_CHANGE_TO_STUDIO_X_ON_NEXT_HOUR, switch_to_y |-> FALSE],
      [trigger |-> NEXT_HOUR, source |-> FROM_AUTOMAT_CHANGE_TO_STUDIO_X_ON_NEXT_HOUR,
       dest |-> STUDIO_X_ON_AIR, switch_to_y |-> FALSE],
      [trigger |-> <<"IMMEDIATE", "X">>, source |-> AUTOMAT_ON_AIR,
       dest |-> AUTOMAT_ON_AIR_IMMEDIATE_STATE_X, switch_to_y |-> FALSE],
      [trigger |-> <<"TAKEOVER", "X">>, source |-> AUTOMAT_ON_AIR_IMMEDIATE_STATE_X,
       dest |-> STUDIO_X_ON_AIR, switch_to_y |-> FALSE],
      [trigger |-> <<"immediate", "state", "timeout">>, source |-> AUTOMAT_ON_AIR_IMMEDIATE_STATE_X,
       dest |-> AUTOMAT_ON_AIR, switch_to_y |-> FALSE],
      [trigger |-> <<"IMMEDIATE", "X">>, source |-> STUDIO_X_ON_AIR,
       dest |-> STUDIO_X_ON_AIR_IMMEDIATE_STATE, switch_to_y |-> FALSE],
      [trigger |-> <<"immediate", "state", "timeout">>, source |-> STUDIO_X_ON_AIR_IMMEDIATE_STATE,
       dest |-> STUDIO_X_ON_AIR, switch_to_y |-> FALSE],
      [trigger |-> <<"RELEASE", "X">>, source |-> STUDIO_X_ON_AIR_IMMEDIATE_STATE,
       dest |-> STUDIO_X_ON_AIR_IMMEDIATE_RELEASE, switch_to_y |-> FALSE],
      [trigger |-> <<"immediate", "release", "timeout">>, source |-> STUDIO_X_ON_AIR_IMMEDIATE_RELEASE,
       dest |-> AUTOMAT_ON_AIR, switch_to_y |-> FALSE],
      [trigger |-> <<"RELEASE", "X">>, source |-> STUDIO_X_ON_AIR,
       dest |-> FROM_STUDIO_X_CHANGE_TO_AUTOMAT_ON_NEXT_HOUR, switch_to_y |-> FALSE],
      [trigger |-> NEXT_HOUR, source |-> FROM_STUDIO_X_CHANGE_TO_AUTOMAT_ON_NEXT_HOUR,
       dest |-> AUTOMAT_ON_AIR, switch_to_y |-> FALSE],
      [trigger |-> <<"TAKEOVER", "Y">>, source |-> STUDIO_X_ON_AIR,
       dest |-> STUDIO_X_ON_AIR_STUDIO_Y_TAKEOVER_REQUEST, switch_to_y |-> FALSE],
      [trigger |-> <<"RELEASE", "X">>, source |-> STUDIO_X_ON_AIR_STUDIO_Y_TAKEOVER_REQUEST,
       dest |-> FROM_STUDIO_X_CHANGE_TO_STUDIO_Y_ON_NEXT_HOUR, switch_to_y |-> FALSE],
      [trigger |-> NEXT_HOUR, source |-> FROM_STUDIO_X_CHANGE_TO_STUDIO_Y_ON_NEXT_HOUR,
       dest |-> STUDIO_X_ON_AIR, switch_to_y |-> TRUE] }

\* "Assure to ignore button presses which are not in any transition": every
\* button trigger without a row gets the row noop -> noop
noop_transitions ==
    { [trigger |-> ButtonTrigger(b, <<kind>>), source |-> NOOP, dest |-> NOOP, switch_to_y |-> FALSE] :
        <<b, kind>> \in { bk \in Buttons \X {"X", "Y"} :
            \A t \in transitions : t.trigger # ButtonTrigger(bk[1], <<bk[2]>>) } }

\* the library's auto transitions: 'to_<state>' from every state
auto_transitions ==
    { [trigger |-> ToTrigger(d), source |-> s, dest |-> d, switch_to_y |-> FALSE] : s \in States, d \in States }

machine_transitions == transitions \cup noop_transitions \cup auto_transitions

\* the transitions the trigger has from the state
Matching(s, trig) == { t \in machine_transitions : t.trigger = trig /\ t.source = s }

\* ------------------------------------------------------------ event loop
\* entries of the loop's FIFO of ready callbacks
NoTimer == <<>>
ButtonWake == [kind |-> "button", timer |-> NoTimer, id |-> 0]
SetTask == [kind |-> "set", timer |-> NoTimer, id |-> 0]
StartEntry(k, id) == [kind |-> "start", timer |-> k, id |-> id]
TimerWake(k, id) == [kind |-> "timer", timer |-> k, id |-> id]
CancelWake(k, id) == [kind |-> "cancel", timer |-> k, id |-> id]
\* a task cancelled before its first step: the coroutine body never runs
CancelUnstarted(k, id) == [kind |-> "dropped", timer |-> k, id |-> id]

\* the task a handler runs in
NoTask == [timer |-> NoTimer, id |-> 0]
Task(k, id) == [timer |-> k, id |-> id]

InReady(rdy, e) == \E i \in 1..Len(rdy) : rdy[i] = e
Replace(rdy, e, f) == [i \in 1..Len(rdy) |-> IF rdy[i] = e THEN f ELSE rdy[i]]
CountKind(rdy, kind) == Cardinality({i \in 1..Len(rdy) : rdy[i].kind = kind})

\* the unfinished tasks of a timer kind: sleeping or due, cancelled with the
\* CancelledError not yet delivered, and the running one
Live(d, k, self) ==
    d.pending[k]
      \cup {i \in 1..(MaxTasks + 3) : InReady(d.ready, CancelWake(k, i)) \/ InReady(d.ready, CancelUnstarted(k, i))}
      \cup (IF self.timer = k THEN {self.id} ELSE {})

\* asyncio.Task.done()
done(d, k, id, self) == id \notin Live(d, k, self)

\* asyncio.Task.cancel() 
cancel(d, k, id, self) ==
    IF self = Task(k, id) THEN d
    ELSE IF id \notin d.pending[k] THEN d
    ELSE [d EXCEPT !.pending[k] = @ \ {id},
                   !.ready = IF InReady(@, StartEntry(k, id)) THEN Replace(@, StartEntry(k, id), CancelUnstarted(k, id))
                             ELSE IF InReady(@, TimerWake(k, id)) THEN Replace(@, TimerWake(k, id), CancelWake(k, id))
                             ELSE Append(@, CancelWake(k, id))]

\* base.loop.create_task(<timer coroutine>) assigned to the timer's holder
create_task(d, k, self) ==
    LET id == CHOOSE i \in 1..(MaxTasks + 3) : i \notin Live(d, k, self) /\ \A j \in 1..(i - 1) : j \in Live(d, k, self)
    IN [d EXCEPT !.pending[k] = @ \cup {id}, !.ref[k] = id, !.ready = Append(@, StartEntry(k, id))]

\* mutant: the next-hour timer is never started
start_next_hour_timer_never(d, self) == d

start_next_hour_timer(d, self) ==
    IF d.ref[NEXT_HOUR] # 0 /\ ~done(d, NEXT_HOUR, d.ref[NEXT_HOUR], self) THEN d
    ELSE create_task(d, NEXT_HOUR, self)

stop_next_hour_timer(d, self) ==
    IF d.ref[NEXT_HOUR] # 0
    THEN [cancel(d, NEXT_HOUR, d.ref[NEXT_HOUR], self) EXCEPT !.ref[NEXT_HOUR] = 0]
    ELSE d

start_immediate_state_timer(d, self) ==
    IF d.ref[IMMEDIATE_STATE] # 0 /\ ~done(d, IMMEDIATE_STATE, d.ref[IMMEDIATE_STATE], self) THEN d
    ELSE create_task(d, IMMEDIATE_STATE, self)

\* mutant: the holder is cleared, the task is not cancelled
stop_immediate_state_timer_no_cancel(d, self) == [d EXCEPT !.ref[IMMEDIATE_STATE] = 0]

stop_immediate_state_timer(d, self) ==
    IF d.ref[IMMEDIATE_STATE] # 0
    THEN [cancel(d, IMMEDIATE_STATE, d.ref[IMMEDIATE_STATE], self) EXCEPT !.ref[IMMEDIATE_STATE] = 0]
    ELSE d

start_immediate_release_timer(d, self) ==
    IF d.ref[IMMEDIATE_RELEASE] # 0 /\ done(d, IMMEDIATE_RELEASE, d.ref[IMMEDIATE_RELEASE], self) THEN d
    ELSE create_task(d, IMMEDIATE_RELEASE, self)

stop_immediate_release_timer(d, self) ==
    IF d.ref[IMMEDIATE_RELEASE] # 0
    THEN [cancel(d, IMMEDIATE_RELEASE, d.ref[IMMEDIATE_RELEASE], self) EXCEPT !.ref[IMMEDIATE_RELEASE] = 0]
    ELSE d


\* ------------------------------------------------------------- dispatcher
\* The operations below work on a record d of the dispatcher's fields and of
\* the loop's ready queue:
\*   state, x, y, on_air (_on_air_selector_value), ref (the three task
\*   holders, 0 for None), pending (unfinished, uncancelled timer tasks per
\*   kind), ready, led (led_status_typed per studio), err (an exception other
\*   than MachineError left the trigger).
\* `self` is the task the handler runs in.

prepare_switch_to_y(d) == [d EXCEPT !.x = d.y, !.y = None]

change_to_automat(d) ==
    [d EXCEPT !.on_air = automat_selector_value, !.ready = Append(@, SetTask)]

\* mutant: the target is set, no _set_current_state task is created
change_to_studio_no_task(d) ==
    IF d.x = None THEN [d EXCEPT !.err = TRUE]
    ELSE [d EXCEPT !.on_air = studios_to_selector_value[d.x]]

\* self._studios_to_selector_value[self._x] raises KeyError when _x is None
change_to_studio(d) ==
    IF d.x = None THEN [d EXCEPT !.err = TRUE]
    ELSE [d EXCEPT !.on_air = studios_to_selector_value[d.x], !.ready = Append(@, SetTask)]

\* the 'enter' callbacks registered on the two states
enter(d, dest) ==
    IF dest = AUTOMAT_ON_AIR THEN change_to_automat(d)
    ELSE IF dest = STUDIO_X_ON_AIR THEN change_to_studio(d)
    ELSE d

\* mutant: a Y event sets x as well, y is never set
before_state_change_y_as_x(d, dest, trig, studio, self) ==
    LET d0 == IF studio = None THEN d ELSE [d EXCEPT !.x = studio]
        d1 == IF ~Contains(NEXT_HOUR, dest) THEN stop_next_hour_timer(d0, self) ELSE d0
        d2 == IF ~Contains(IMMEDIATE_STATE, dest) THEN stop_immediate_state_timer(d1, self) ELSE d1
    IN IF ~Contains(IMMEDIATE_RELEASE, dest) THEN stop_immediate_release_timer(d2, self) ELSE d2

\* `studio` is the studio of the button_event keyword (None: no button event)
before_state_change(d, dest, trig, studio, self) ==
    LET d0 == IF studio = None THEN d
              ELSE IF Contains(<<"X">>, trig) THEN [d EXCEPT !.x = studio]
              ELSE IF Contains(<<"Y">>, trig) THEN [d EXCEPT !.y = studio]
              ELSE d
        d1 == IF ~Contains(NEXT_HOUR, dest) THEN stop_next_hour_timer(d0, self) ELSE d0
        d2 == IF ~Contains(IMMEDIATE_STATE, dest) THEN stop_immediate_state_timer(d1, self) ELSE d1
    IN IF ~Contains(IMMEDIATE_RELEASE, dest) THEN stop_immediate_release_timer(d2, self) ELSE d2

\* mutant: x is not cleared when the destination has no X
after_state_change_keep_x(d, dest, self) ==
    LET d0 == [d EXCEPT !.y = IF Contains(<<"Y">>, dest) THEN @ ELSE None]
        d1 == IF Contains(NEXT_HOUR, dest) THEN start_next_hour_timer(d0, self) ELSE d0
        d2 == IF Contains(IMMEDIATE_STATE, dest) THEN start_immediate_state_timer(d1, self) ELSE d1
    IN IF Contains(IMMEDIATE_RELEASE, dest) THEN start_immediate_release_timer(d2, self) ELSE d2

after_state_change(d, dest, self) ==
    LET d0 == [d EXCEPT !.x = IF Contains(<<"X">>, dest) THEN @ ELSE None,
                        !.y = IF Contains(<<"Y">>, dest) THEN @ ELSE None]
        d1 == IF Contains(NEXT_HOUR, dest) THEN start_next_hour_timer(d0, self) ELSE d0
        d2 == IF Contains(IMMEDIATE_STATE, dest) THEN start_immediate_state_timer(d1, self) ELSE d1
    IN IF Contains(IMMEDIATE_RELEASE, dest) THEN start_immediate_release_timer(d2, self) ELSE d2

\* mutant: a studio that is neither x nor y keeps the recipe it had
assure_led_status_keep_other(d) ==
    LET new_led_state == led_state_target(d.state)
    IN [d EXCEPT !.led = [studio \in Studios |->
            IF studio = d.x THEN new_led_state.x
            ELSE IF studio = d.y THEN new_led_state.y
            ELSE d.led[studio]]]

assure_led_status(d) ==
    LET new_led_state == led_state_target(d.state)
    IN [d EXCEPT !.led = [studio \in Studios |->
            IF studio = d.x THEN new_led_state.x
            ELSE IF studio = d.y THEN new_led_state.y
            ELSE new_led_state.other]]

\* mutant: the switch to Y runs after the destination's enter callbacks
execute_switch_after_enter(d, t, trig, studio, self) ==
    LET d1 == before_state_change(d, t.dest, trig, studio, self)
        d2 == enter([d1 EXCEPT !.state = t.dest], t.dest)
        d3 == IF t.switch_to_y THEN prepare_switch_to_y(d2) ELSE d2
    IN IF d3.err THEN assure_led_status(d3)
       ELSE assure_led_status(after_state_change(d3, t.dest, self))

\* One transition of the machine: machine-wide before_state_change, the
\* transition's own `before` (the switch to Y), the state change with the
\* destination's enter callbacks, machine-wide after_state_change, and the
\* finalize_event callbacks (the audit only logs).
execute(d, t, trig, studio, self) ==
    LET d1 == before_state_change(d, t.dest, trig, studio, self)
        d2 == IF t.switch_to_y THEN prepare_switch_to_y(d1) ELSE d1
        d3 == enter([d2 EXCEPT !.state = t.dest], t.dest)
    IN IF d3.err THEN assure_led_status(d3)
       ELSE assure_led_status(after_state_change(d3, t.dest, self))

\* mutant: the studio of the event is assigned before the trigger is looked up
trigger_assigns_first(d, trig, studio, self) ==
    LET d0 == IF studio = None THEN d
              ELSE IF Contains(<<"X">>, trig) THEN [d EXCEPT !.x = studio]
              ELSE IF Contains(<<"Y">>, trig) THEN [d EXCEPT !.y = studio]
              ELSE d
    IN IF Matching(d.state, trig) = {} THEN d0
       ELSE execute(d, CHOOSE t \in Matching(d.state, trig) : TRUE, trig, studio, self)

\* self._machine.trigger(trigger_name, ...): a trigger without a transition
\* from the current state changes nothing (the MachineError is caught and
\* logged by every caller)
trigger(d, trig, studio, self) ==
    IF Matching(d.state, trig) = {} THEN d
    ELSE execute(d, CHOOSE t \in Matching(d.state, trig) : TRUE, trig, studio, self)

\* mutant: every event of a studio other than x is a Y event
trigger_append_never_dropped(d, studio) ==
    IF d.x = None THEN <<"X">>
    ELSE IF d.x = studio THEN <<"X">>
    ELSE <<"Y">>

\* mutant: with a studio in x, every event is a Y event
trigger_append_y_for_x(d, studio) ==
    IF d.x = None THEN <<"X">> ELSE <<"Y">>

\* the '_X' / '_Y' decision of _process_studio_button_events; <<>> is None
trigger_append(d, studio) ==
    IF d.x = None THEN <<"X">>
    ELSE IF d.x = studio THEN <<"X">>
    ELSE IF d.y = None \/ d.y = studio THEN <<"Y">>
    ELSE <<>>

\* one round of the loop of _process_studio_button_events
process_studio_button_events(d, event) ==
    LET append == trigger_append(d, event.studio)
        d1 == IF append # <<>>
              THEN trigger(d, ButtonTrigger(event.button, append), event.studio, NoTask)
              ELSE d
    IN IF d1.err THEN d1 ELSE assure_led_status(d1)

\* A timer task after its last sleep (__hour_timer, __immediate_state_timer,
\* __immediate_release_timer): the trigger, then `finally` clears the holder
\* of its kind.  The hour timer also assures the LEDs.  An hour timer started
\* within 0.3 s of the full hour fires in its first step; that order of
\* handlers is the one of a start step followed at once by the wake-up.
timer_fired(d, k, id) ==
    LET d1 == trigger(d, TimerTrigger(k), None, Task(k, id))
        d2 == IF k = NEXT_HOUR /\ ~d1.err THEN assure_led_status(d1) ELSE d1
    IN [d2 EXCEPT !.pending[k] = @ \ {id}, !.ref[k] = 0]

\* a cancelled timer task gets its CancelledError in the sleep: only `finally`
timer_cancelled(d, k) == [d EXCEPT !.ref[k] = 0]

\* ---------------------------------------------------------------- selector
\* round(n / m), Python 3: ties go to the even integer
Round(n, m) ==
    LET q == n \div m
        r == n % m
    IN IF 2 * r < m THEN q
       ELSE IF 2 * r > m THEN q + 1
       ELSE IF q % 2 = 0 THEN q ELSE q + 1

\* the raw value set_position writes
raw_of(position) == Round((position - 1) * 65535, position_count - 1)


\* ------------------------------------------------------------------ SymNet
\* A datagram is modelled by data_str.split('\r'): a sequence of lines, each
\* line a sequence of characters.  'NAK\r' is <<NAK, <<>>>>.
Digits == {"0", "1", "2", "3", "4", "5", "6", "7", "8", "9"}

DigitValue(c) ==
    CASE c = "0" -> 0 [] c = "1" -> 1 [] c = "2" -> 2 [] c = "3" -> 3 [] c = "4" -> 4
      [] c = "5" -> 5 [] c = "6" -> 6 [] c = "7" -> 7 [] c = "8" -> 8 [] OTHER -> 9

DigitChar(n) == CHOOSE c \in Digits : DigitValue(c) = n

IsDigits(cs) == \A i \in 1..Len(cs) : cs[i] \in Digits

\* int() of a string of digits
RECURSIVE int_of(_)
int_of(cs) ==
    IF cs = <<>> THEN 0
    ELSE 10 * int_of(SubSeq(cs, 1, Len(cs) - 1)) + DigitValue(cs[Len(cs)])

\* str() / '{:d}' of a natural number
RECURSIVE str_of(_)
str_of(n) == IF n < 10 THEN <<DigitChar(n)>> ELSE str_of(n \div 10) \o <<DigitChar(n % 10)>>

ACK == <<"A", "C", "K">>
NAK == <<"N", "A", "K">>

\* lines = [lines[i] for i in range(len(lines)) if len(lines[i]) > 0]
RECURSIVE non_empty(_)
non_empty(parts) ==
    IF parts = <<>> THEN <<>>
    ELSE IF Head(parts) = <<>> THEN non_empty(Tail(parts))
    ELSE <<Head(parts)>> \o non_empty(Tail(parts))

\* re.match('^#([0-9]{5})=(-?[0-9]{4,5})$', line)
push_match(line) ==
    /\ Len(line) >= 11
    /\ line[1] = "#"
    /\ IsDigits(SubSeq(line, 2, 6))
    /\ line[7] = "="
    /\ LET v == SubSeq(line, 8, Len(line))
           w == IF v[1] = "-" THEN Tail(v) ELSE v
       IN Len(w) \in {4, 5} /\ IsDigits(w)

\* SymNetRawControllerState(int(m.group(1)), int(m.group(2)))
push_state(line) ==
    LET v == SubSeq(line, 8, Len(line))
    IN [controller_number |-> int_of(SubSeq(line, 2, 6)),
        controller_value |-> IF v[1] = "-" THEN 0 - int_of(Tail(v)) ELSE int_of(v)]

\* mutant: the first line that does not match ends the datagram
RECURSIVE pushed_until_mismatch(_)
pushed_until_mismatch(lines) ==
    IF lines = <<>> THEN <<>>
    ELSE IF push_match(Head(lines)) THEN <<push_state(Head(lines))>> \o pushed_until_mismatch(Tail(lines))
    ELSE <<>>

\* the states the lines of a datagram push, in line order
RECURSIVE pushed(_)
pushed(lines) ==
    IF lines = <<>> THEN <<>>
    ELSE IF push_match(Head(lines)) THEN <<push_state(Head(lines))>> \o pushed(Tail(lines))
    ELSE pushed(Tail(lines))

\* re.match('^' + str(controller_number) + ' ([0-9]{1,5})\r$', data_str)
gs2_match(cn, parts) ==
    /\ Len(parts) = 2 /\ parts[2] = <<>>
    /\ LET prefix == str_of(cn) \o <<" ">>
           line == parts[1]
       IN /\ Len(line) > Len(prefix)
          /\ SubSeq(line, 1, Len(prefix)) = prefix
          /\ Len(line) - Len(prefix) <= 5
          /\ IsDigits(SubSeq(line, Len(prefix) + 1, Len(line)))

\* int(m.group(1)) of that match
gs2_value(cn, parts) == int_of(SubSeq(parts[1], Len(str_of(cn)) + 2, Len(parts[1])))

\* re.match('^(ACK)|(NAK)\r$', data_str): the data starts with ACK, or is
\* exactly 'NAK\r'
cs_match(parts) ==
    \/ parts # <<>> /\ Len(parts[1]) >= 3 /\ SubSeq(parts[1], 1, 3) = ACK
    \/ parts = <<NAK, <<>>>>

\* m.group(1) of that match: 'ACK' or None
cs_group1(parts) ==
    IF parts # <<>> /\ Len(parts[1]) >= 3 /\ SubSeq(parts[1], 1, 3) = ACK THEN ACK ELSE <<>>

\* quotient and remainder of a * b by c, without the product (which does not
\* fit the checker's integers for 16-bit operands): one binary digit of b at a
\* time
RECURSIVE mulmod(_, _, _)
mulmod(a, b, c) ==
    IF b = 0 THEN 0
    ELSE (2 * mulmod(a, b \div 2, c) + (IF b % 2 = 1 THEN a ELSE 0)) % c

RECURSIVE mulquot(_, _, _)
mulquot(a, b, c) ==
    IF b = 0 THEN 0
    ELSE 2 * mulquot(a, b \div 2, c)
           + (2 * mulmod(a, b \div 2, c) + (IF b % 2 = 1 THEN a ELSE 0)) \div c

muldiv(a, b, c) == <<mulquot(a, b, c), mulmod(a, b, c)>>

\* round(a * b / c), Python 3: ties go to the even integer
RoundMulDiv(a, b, c) ==
    LET qr == muldiv(a, b, c)
    IN IF 2 * qr[2] < c THEN qr[1]
       ELSE IF 2 * qr[2] > c THEN qr[1] + 1
       ELSE IF qr[1] % 2 = 0 THEN qr[1] ELSE qr[1] + 1

\* round((position - 1) / (position_count - 1) * 65535)
selector_raw(count, position) == RoundMulDiv(position - 1, 65535, count - 1)

\* mutant: int() in place of round()
selector_position_truncating(count, raw_value) == muldiv(raw_value, count - 1, 65535)[1] + 1

\* round(raw / 65535 * (position_count - 1) + 1); the fraction is never a
\* tie (65535 is odd), so the 1 can be added after rounding
selector_position(count, raw_value) == RoundMulDiv(raw_value, count - 1, 65535) + 1

\* the controllers defined on the device: a selector and a button
Selector == 42
ButtonController == 4
Controllers == {Selector, ButtonController}

\* SymNetController.value_timeout, in seconds
value_timeout == 10

\* the observers registered with add_observer, in the order of registration
observer ==
    [cn \in Controllers |-> IF cn = Selector THEN <<"f", "g">> ELSE <<"h">>]

\* The operations below work on a record sn of the device's fields:
\*   now (base.loop.time()), position_count (of the selector), callback_queue
\*   (SymNetRawProtocol.callback_queue; an entry is the command that waits, its
\*   controller and the coroutine awaiting its future), raw_value and
\*   raw_value_time (per controller), state_queue (the push channel),
\*   awaiting (futures completed whose awaiters have not run yet), and last
\*   (what the last step did: datagram received, transport writes, value
\*   returned, place in the queue of the callback completed and its result,
\*   observer tasks created, states enqueued).
NoValue == 0 - 1

Quiet(kind, cn) ==
    [kind |-> kind, cn |-> cn, position |-> 0, data |-> <<>>, sent |-> <<>>, returned |-> NoValue,
     taken |-> 0, completed |-> <<>>, scheduled |-> <<>>, enqueued |-> <<>>]

symnet_init(count) ==
    [now |-> 0, position_count |-> count, callback_queue |-> <<>>,
     raw_value |-> [cn \in Controllers |-> 0],
     raw_value_time |-> [cn \in Controllers |-> 0],
     state_queue |-> <<>>, awaiting |-> <<>>,
     last |-> Quiet("init", 0)]

\* mutant: the observers are scheduled whether or not the value changed
set_raw_value_always_notifies(sn, cn, value) ==
    LET old_value == sn.raw_value[cn]
    IN [sn EXCEPT !.raw_value[cn] = value,
                  !.raw_value_time[cn] = sn.now,
                  !.last.scheduled = @ \o
                        [i \in 1..Len(observer[cn]) |->
                            [clb |-> observer[cn][i], controller |-> cn,
                             old_value |-> old_value, new_value |-> value]]]

\* SymNetController._set_raw_value
set_raw_value(sn, cn, value) ==
    LET old_value == sn.raw_value[cn]
    IN [sn EXCEPT !.raw_value[cn] = value,
                  !.raw_value_time[cn] = sn.now,
                  !.last.scheduled = @ \o
                     (IF old_value # value
                      THEN [i \in 1..Len(observer[cn]) |->
                               [clb |-> observer[cn][i], controller |-> cn,
                                old_value |-> old_value, new_value |-> value]]
                      ELSE <<>>)]

\* SymNetController._assure_current_state: the callback is queued, CS written
assure_current_state(sn, cn, waiter) ==
    [sn EXCEPT !.callback_queue = Append(@, [op |-> "CS", cn |-> cn, waiter |-> waiter]),
               !.last.sent = Append(@, <<"CS", cn, sn.raw_value[cn]>>)]

\* SymNetController._retrieve_current_state: the callback is queued, GS2 written
retrieve_current_state(sn, cn, waiter) ==
    [sn EXCEPT !.callback_queue = Append(@, [op |-> "GS2", cn |-> cn, waiter |-> waiter]),
               !.last.sent = Append(@, <<"GS2", cn>>)]

\* SymNetController._get_raw_value up to its await: TRUE in the second
\* component when the coroutine waits for the GS2 response
get_raw_value(sn, cn, waiter) ==
    IF sn.now - sn.raw_value_time[cn] > value_timeout
    THEN <<retrieve_current_state(sn, cn, waiter), TRUE>>
    ELSE <<sn, FALSE>>

\* the callback's regex matches the datagram
cb_match(cb, parts) ==
    IF cb.op = "GS2" THEN gs2_match(cb.cn, parts) ELSE cs_match(parts)

\* SymNetRawProtocolCallback.callback: _retrieve_callback / _assure_callback
\* run, the future gets the result or the exception
run_callback(sn, cb, parts, with_m) ==
    LET ok == IF cb.op = "GS2" THEN with_m
              ELSE with_m /\ cs_group1(parts) # NAK
        sn1 == IF cb.op = "GS2" /\ ok THEN set_raw_value(sn, cb.cn, gs2_value(cb.cn, parts)) ELSE sn
    IN [sn1 EXCEPT !.awaiting = Append(@, [cb |-> cb, ok |-> ok]),
                   !.last.completed = <<[cb |-> cb, ok |-> ok]>>]

\* self.callback_queue.remove(callback_obj)
remove_at(q, i) == SubSeq(q, 1, i - 1) \o SubSeq(q, i + 1, Len(q))

\* mutant: a lone NAK goes to the first callback whose regex matches it
datagram_received_nak_by_pattern(sn, parts) ==
    LET lines == non_empty(parts)
        q == sn.callback_queue
        taking == {i \in 1..Len(q) : cb_match(q[i], parts)}
    IN IF taking # {}
       THEN LET i == CHOOSE j \in taking : \A k \in taking : j <= k
            IN run_callback([sn EXCEPT !.callback_queue = remove_at(q, i), !.last.taken = i],
                            q[i], parts, lines # <<NAK>>)
       ELSE IF Len(lines) = 1 /\ lines[1] \in {NAK, ACK} THEN sn
       ELSE [sn EXCEPT !.state_queue = @ \o pushed(lines), !.last.enqueued = pushed(lines)]

\* mutant: only the head callback is tried
datagram_received_head_only(sn, parts) ==
    LET lines == non_empty(parts)
        lone_nak == lines = <<NAK>>
        q == sn.callback_queue
        taking == {i \in 1..Len(q) : i = 1 /\ (lone_nak \/ cb_match(q[i], parts))}
    IN IF taking # {}
       THEN run_callback([sn EXCEPT !.callback_queue = remove_at(q, 1), !.last.taken = 1],
                         q[1], parts, ~lone_nak)
       ELSE IF Len(lines) = 1 /\ lines[1] \in {NAK, ACK} THEN sn
       ELSE [sn EXCEPT !.state_queue = @ \o pushed(lines), !.last.enqueued = pushed(lines)]

\* mutant: the newest callback that takes the datagram is completed
datagram_received_newest_match(sn, parts) ==
    LET lines == non_empty(parts)
        lone_nak == lines = <<NAK>>
        q == sn.callback_queue
        taking == {i \in 1..Len(q) : lone_nak \/ cb_match(q[i], parts)}
    IN IF taking # {}
       THEN LET i == CHOOSE j \in taking : \A k \in taking : j >= k
            IN run_callback([sn EXCEPT !.callback_queue = remove_at(q, i), !.last.taken = i],
                            q[i], parts, ~lone_nak)
       ELSE IF Len(lines) = 1 /\ lines[1] \in {NAK, ACK} THEN sn
       ELSE [sn EXCEPT !.state_queue = @ \o pushed(lines), !.last.enqueued = pushed(lines)]

\* SymNetRawProtocol.datagram_received
datagram_received(sn, parts) ==
    LET lines == non_empty(parts)
        lone_nak == lines = <<NAK>>
        q == sn.callback_queue
        taking == {i \in 1..Len(q) : lone_nak \/ cb_match(q[i], parts)}
    IN IF taking # {}
       THEN LET i == CHOOSE j \in taking : \A k \in taking : j <= k
            IN run_callback([sn EXCEPT !.callback_queue = remove_at(q, i), !.last.taken = i],
                            q[i], parts, ~lone_nak)
       ELSE IF Len(lines) = 1 /\ lines[1] \in {NAK, ACK} THEN sn
       ELSE [sn EXCEPT !.state_queue = @ \o pushed(lines), !.last.enqueued = pushed(lines)]

\* mutant: the newest state of the queue is taken
process_push_messages_newest_first(sn) ==
    LET cs == sn.state_queue[Len(sn.state_queue)]
        sn1 == [sn EXCEPT !.state_queue = SubSeq(@, 1, Len(@) - 1)]
    IN IF cs.controller_number \in Controllers
       THEN set_raw_value(sn1, cs.controller_number, cs.controller_value)
       ELSE sn1

\* one round of SymNetDevice._process_push_messages
process_push_messages(sn) ==
    LET cs == Head(sn.state_queue)
        sn1 == [sn EXCEPT !.state_queue = Tail(@)]
    IN IF cs.controller_number \in Controllers
       THEN set_raw_value(sn1, cs.controller_number, cs.controller_value)
       ELSE sn1

\* The process around the dispatcher.  cleanup: the steps taken since
\* base.cleanup_event was set, in their order; saved: the files written by
\* save(); wall: time.time() in tenths of a second; hour: the running
\* __hour_timer: where it is (pc), next_hour_timestamp (target), the sleep it
\* is in, the wall time right after its start or the last backward jump of
\* the clock (base); keepalive: where _assure_current_state_loop is; wire: the
\* commands written to the transport and not yet answered; dsp: the DSP's
\* value of the selector; lost, naks: datagrams lost and NAKs sent so far
env_init ==
    [cleanup |-> <<>>,
     saved |-> <<>>,
     wall |-> 0,
     hour |-> [pc |-> "idle", target |-> 0, sleep |-> 0, base |-> 0, jumps |-> 0],
     keepalive |-> "ready",
     wire |-> <<>>,
     dsp |-> 0,
     lost |-> 0,
     naks |-> 0]

\* -------------------------------------------------------------------- state
VARIABLES
    state,      \* self._machine.state
    x,          \* self._x, a studio or None
    y,          \* self._y
    on_air,     \* self._on_air_selector_value
    ref,        \* the task holders _next_hour_timer, _immediate_state_timer, _immediate_release_timer (0: None)
    pending,    \* per kind, the timer tasks neither finished nor cancelled
    ready,      \* the event loop's FIFO of ready callbacks
    led,        \* per studio, led_status_typed
    err,        \* the last handler was left by an exception other than MachineError
    raw,        \* the selector controller's raw_value
    queue,      \* _dispatcher_button_event_queue (maxsize 1)
    last,       \* what the last step was: the handler, its trigger and the state it found
    symnet,     \* the SymNet device: protocol, controllers and push channel
    env         \* the process around them: wall clock, cleanup event, keepalive loop, the DSP's answers

dispatcher_vars == <<state, x, y, on_air, ref, pending, ready, led, err, raw, queue, last>>

vars == <<state, x, y, on_air, ref, pending, ready, led, err, raw, queue, last, symnet, env>>

\* the dispatcher's fields as the record the operations work on
D == [state |-> state, x |-> x, y |-> y, on_air |-> on_air, ref |-> ref,
      pending |-> pending, ready |-> ready, led |-> led, err |-> FALSE]

Commit(d) ==
    /\ state' = d.state
    /\ x' = d.x
    /\ y' = d.y
    /\ on_air' = d.on_air
    /\ ref' = d.ref
    /\ pending' = d.pending
    /\ ready' = d.ready
    /\ led' = d.led
    /\ err' = d.err

Last(kind, trig, studio, task) ==
    [kind |-> kind, trigger |-> trig, studio |-> studio, task |-> task, src |-> state,
     valid |-> trig # <<>> /\ Matching(state, trig) # {},
     switch |-> trig # <<>> /\ \E t \in Matching(state, trig) : t.switch_to_y]

\* The dispatcher after __init__ and start(): the machine in its initial
\* state, no studio, the automat as on-air target, no timer; the keepalive
\* loop's first _set_current_state waits in the loop, the button loop waits
\* for an event.  The (dummy) selector controller starts with raw_value 0.
DispatcherInit ==
    /\ state = AUTOMAT_ON_AIR
    /\ x = None
    /\ y = None
    /\ on_air = automat_selector_value
    /\ ref = [k \in TimerKinds |-> 0]
    /\ pending = [k \in TimerKinds |-> {}]
    /\ ready = <<SetTask>>
    /\ led = [s \in Studios |-> AllOff]
    /\ err = FALSE
    /\ raw = 0
    /\ queue = <<>>
    /\ last = [kind |-> "init", trigger |-> <<>>, studio |-> None, task |-> NoTask,
               src |-> AUTOMAT_ON_AIR, valid |-> FALSE, switch |-> FALSE]

\* the dispatcher with its selector controller; the device is idle
Init == DispatcherInit /\ symnet = symnet_init(position_count) /\ env = env_init

\* ------------------------------------------------------------- environment
\* asyncio.Queue(maxsize=1): _dispatcher_button_event_queue
maxsize == 1

\* mutant: the queue is never full
full_never(q) == FALSE

\* Queue.full()
full(q) == Len(q) >= maxsize

\* Queue.put_nowait(), Queue.get_nowait(): the deque's append and popleft
put_nowait(q, item) == Append(q, item)
get_nowait(q) == Tail(q)

\* a studio's put() on the queue returns: put() waits while the queue is full;
\* the waiting button loop is woken
Press(studio, button) ==
    /\ UNCHANGED <<symnet, env>>
    /\ ~full(queue)
    /\ queue' = put_nowait(queue, [studio |-> studio, button |-> button])
    /\ ready' = Append(ready, ButtonWake)
    /\ last' = Last("press", <<>>, studio, NoTask)
    /\ UNCHANGED <<state, x, y, on_air, ref, pending, led, err, raw>>

\* the sleep of a started timer task ends: the task is woken
Expire(k, id) ==
    /\ UNCHANGED <<symnet, env>>
    /\ id \in pending[k]
    /\ ~InReady(ready, StartEntry(k, id))
    /\ ~InReady(ready, TimerWake(k, id))
    /\ ready' = Append(ready, TimerWake(k, id))
    /\ last' = Last("expire", <<>>, None, Task(k, id))
    /\ UNCHANGED <<state, x, y, on_air, ref, pending, led, err, raw, queue>>

\* the sleep of _assure_current_state_loop ends: _set_current_state again
Keepalive ==
    /\ UNCHANGED <<symnet, env>>
    /\ CountKind(ready, "set") < MaxSetTasks
    /\ ready' = Append(ready, SetTask)
    /\ last' = Last("keepalive", <<>>, None, NoTask)
    /\ UNCHANGED <<state, x, y, on_air, ref, pending, led, err, raw, queue>>

\* ---------------------------------------------------------------- handlers
\* the record a handler starts from: the head of the ready queue is taken
Taken == [D EXCEPT !.ready = Tail(ready)]

\* the button loop takes the event and processes it
StepButton ==
    /\ UNCHANGED <<symnet, env>>
    /\ ready # <<>> /\ Head(ready) = ButtonWake
    /\ Commit(process_studio_button_events(Taken, Head(queue)))
    /\ queue' = get_nowait(queue)
    /\ last' = Last("button",
                    IF trigger_append(D, Head(queue).studio) = <<>> THEN <<>>
                    ELSE ButtonTrigger(Head(queue).button, trigger_append(D, Head(queue).studio)),
                    Head(queue).studio, NoTask)
    /\ UNCHANGED raw

\* the first step of a timer task: it starts to sleep
StepStart ==
    /\ UNCHANGED <<symnet, env>>
    /\ ready # <<>> /\ Head(ready).kind = "start"
    /\ ready' = Tail(ready)
    /\ err' = FALSE
    /\ last' = Last("start", <<>>, None, Task(Head(ready).timer, Head(ready).id))
    /\ UNCHANGED <<state, x, y, on_air, ref, pending, led, raw, queue>>

\* a timer task wakes from its sleep and fires its trigger
StepTimer ==
    /\ UNCHANGED <<symnet, env>>
    /\ ready # <<>> /\ Head(ready).kind = "timer"
    /\ Commit(timer_fired(Taken, Head(ready).timer, Head(ready).id))
    /\ last' = Last("timer", TimerTrigger(Head(ready).timer), None, Task(Head(ready).timer, Head(ready).id))
    /\ UNCHANGED <<raw, queue>>

\* a cancelled timer task ends: one that had started runs its `finally`, one
\* that was cancelled before its first step runs nothing
StepCancelled ==
    /\ UNCHANGED <<symnet, env>>
    /\ ready # <<>> /\ Head(ready).kind \in {"cancel", "dropped"}
    /\ Commit(IF Head(ready).kind = "cancel" THEN timer_cancelled(Taken, Head(ready).timer) ELSE Taken)
    /\ last' = Last(Head(ready).kind, <<>>, None, Task(Head(ready).timer, Head(ready).id))
    /\ UNCHANGED <<raw, queue>>

\* _set_current_state: set_position(self._on_air_selector_value) on the
\* selector controller (the variant without protocol I/O): the assertion, then
\* _set_raw_value, which schedules the observer (_set_current_state again,
\* registered by start()) when the value changed
set_current_state(d, old_raw) ==
    IF ~(1 <= d.on_air /\ d.on_air <= position_count) THEN [d EXCEPT !.err = TRUE]
    ELSE IF old_raw # raw_of(d.on_air) THEN [d EXCEPT !.ready = Append(@, SetTask)]
    ELSE d

StepSet ==
    /\ UNCHANGED <<symnet, env>>
    /\ ready # <<>> /\ Head(ready) = SetTask
    /\ Commit(set_current_state(Taken, raw))
    /\ raw' = IF 1 <= on_air /\ on_air <= position_count THEN raw_of(on_air) ELSE raw
    /\ last' = Last("set", <<>>, None, NoTask)
    /\ UNCHANGED queue

\* -------------------------------------------------------------------- load
\* what save() writes in a state that passes the audit
Snapshots ==
    { f \in [x : Studios \cup {None}, y : Studios \cup {None}, state : States \ {NOOP}] :
        /\ (f.x # None) <=> Contains(<<"X">>, f.state)
        /\ (f.y # None) <=> Contains(<<"Y">>, f.state)
        /\ f.x # None => f.x # f.y }

\* Dispatcher.load() reading the file f
load(d, f) ==
    LET d1 == IF f.x # None
              THEN [d EXCEPT !.x = f.x, !.y = IF f.y # None THEN f.y ELSE @]
              ELSE d
        d2 == IF Contains(AUTOMAT_ON_AIR, f.state) THEN change_to_automat(d1)
              ELSE IF Contains(STUDIO_X_ON_AIR, f.state) THEN change_to_studio(d1)
              ELSE d1
    IN IF d2.err THEN d2 ELSE trigger(d2, ToTrigger(f.state), None, NoTask)

Load(f) ==
    /\ UNCHANGED <<symnet, env>>
    /\ Len(ready) <= MaxReadyAtLoad
    /\ \A k \in TimerKinds : Cardinality(Live(D, k, NoTask)) < MaxTasks
    /\ Commit(load(D, f))
    /\ last' = Last("load", ToTrigger(f.state), None, NoTask)
    /\ UNCHANGED <<raw, queue>>

\* ----------------------------------------------------------- specifications
Next ==
    \/ \E studio \in Studios, button \in Buttons : Press(studio, button)
    \/ \E k \in TimerKinds, id \in 1..(MaxTasks + 3) : Expire(k, id)
    \/ Keepalive
    \/ StepButton
    \/ StepStart
    \/ StepTimer
    \/ StepCancelled
    \/ StepSet

\* button events, timer expiries and the keepalive loop
Spec == Init /\ [][Next]_vars

\* mutant: y is not written
save_without_y(d) == [x |-> d.x, y |-> None, state |-> d.state]

\* Dispatcher.save(): the file it writes
save(d) == [x |-> d.x, y |-> d.y, state |-> d.state]

\* load() of the file that save() has just written
Reload == \E f \in Snapshots : f = save(D) /\ Load(f)

NextLoad ==
    \/ Next
    \/ Reload

\* the same, with save() and load() called on the running dispatcher
SpecLoad == Init /\ [][NextLoad]_vars


\* --------------------------------------------------------------- hour timer
\* an hour, two seconds and 0.3 seconds in tenths of a second
Hour == 36000
TwoSeconds == 20
Margin == 3

\* most backward jumps of the clock during one hour timer
MaxJumps == 2
\* the wall clock stays below eight hours
MaxWall == 288000

\* wall times at which a button is pressed: 5:00:00.0, 5:30:00.7, 5:59:57.5,
\* 5:59:58.1, 5:59:59.6, 5:59:59.8, 5:59:59.9
StartTimes == {180000, 198007, 215975, 215981, 215996, 215998, 215999}
\* what the clock is set back by while a timer sleeps: nothing, 10 minutes,
\* one hour, 83 minutes 20 seconds
Jumps == {0, 6000, 36000, 50000}

\* calc_next_hour_timestamp(): now.replace(minute=0, second=0) keeps the
\* fraction of the second
calc_next_hour_timestamp(now) ==
    LET next_timestamp == (now \div Hour) * Hour + (now % 10) + Hour
    IN IF next_timestamp - now > Hour THEN next_timestamp - Hour ELSE next_timestamp

\* __hour_timer from the test of its while loop to the next sleep, or to the
\* trigger (pc "fire"); next_hour_timestamp is the one computed at the start
hour_timer_loop(h, now) ==
    LET duration_to_next_hour == h.target - now
    IN IF duration_to_next_hour > Margin
       THEN IF duration_to_next_hour > TwoSeconds
            THEN [h EXCEPT !.pc = "long", !.sleep = duration_to_next_hour - TwoSeconds]
            ELSE [h EXCEPT !.pc = "short", !.sleep = duration_to_next_hour - Margin]
       ELSE [h EXCEPT !.pc = "fire", !.sleep = 0]

\* the first step of the hour timer task
HourStepStart ==
    /\ ready # <<>> /\ Head(ready).kind = "start" /\ Head(ready).timer = NEXT_HOUR
    /\ LET h == hour_timer_loop([pc |-> "idle", target |-> calc_next_hour_timestamp(env.wall),
                                 sleep |-> 0, base |-> env.wall, jumps |-> 0], env.wall)
       IN /\ env' = [env EXCEPT !.hour = IF h.pc = "fire" THEN [h EXCEPT !.pc = "fired"] ELSE h]
          /\ Commit(IF h.pc = "fire" THEN timer_fired(Taken, NEXT_HOUR, Head(ready).id) ELSE Taken)
          /\ last' = Last(IF h.pc = "fire" THEN "timer" ELSE "start",
                          IF h.pc = "fire" THEN TimerTrigger(NEXT_HOUR) ELSE <<>>,
                          None, Task(NEXT_HOUR, Head(ready).id))
    /\ UNCHANGED <<raw, queue, symnet>>

\* the sleep of the hour timer ends; the clock was set back by `jump` meanwhile
HourExpire(id, jump) ==
    /\ id \in pending[NEXT_HOUR]
    /\ env.hour.pc \in {"long", "short"}
    /\ ~InReady(ready, StartEntry(NEXT_HOUR, id))
    /\ ~InReady(ready, TimerWake(NEXT_HOUR, id))
    /\ jump > 0 => env.hour.jumps < MaxJumps
    /\ env.wall + env.hour.sleep - jump >= 0
    /\ env.wall + env.hour.sleep - jump <= MaxWall
    /\ env' = [env EXCEPT !.wall = @ + env.hour.sleep - jump,
                          !.hour.base = IF jump > 0 THEN env.wall + env.hour.sleep - jump ELSE @,
                          !.hour.jumps = IF jump > 0 THEN @ + 1 ELSE @]
    /\ ready' = Append(ready, TimerWake(NEXT_HOUR, id))
    /\ last' = Last("expire", <<>>, None, Task(NEXT_HOUR, id))
    /\ UNCHANGED <<state, x, y, on_air, ref, pending, led, err, raw, queue, symnet>>

\* the hour timer task runs after a sleep: after the long one the loop goes
\* on, after the short one (break) the trigger is fired
HourStepTimer ==
    /\ ready # <<>> /\ Head(ready).kind = "timer" /\ Head(ready).timer = NEXT_HOUR
    /\ LET h == IF env.hour.pc = "long" THEN hour_timer_loop(env.hour, env.wall)
                ELSE [env.hour EXCEPT !.pc = "fire", !.sleep = 0]
       IN /\ env' = [env EXCEPT !.hour = IF h.pc = "fire" THEN [h EXCEPT !.pc = "fired"] ELSE h]
          /\ Commit(IF h.pc = "fire" THEN timer_fired(Taken, NEXT_HOUR, Head(ready).id) ELSE Taken)
          /\ last' = Last(IF h.pc = "fire" THEN "timer" ELSE "sleep",
                          IF h.pc = "fire" THEN TimerTrigger(NEXT_HOUR) ELSE <<>>,
                          None, Task(NEXT_HOUR, Head(ready).id))
    /\ UNCHANGED <<raw, queue, symnet>>

HourInit ==
    /\ DispatcherInit
    /\ symnet = symnet_init(position_count)
    /\ env \in {[env_init EXCEPT !.wall = now] : now \in StartTimes}

HourNext ==
    \/ \E button \in {"TAKEOVER", "RELEASE"} : Press("A", button)
    \/ StepButton
    \/ StepSet
    \/ HourStepStart
    \/ \E id \in 1..(MaxTasks + 3), jump \in Jumps : HourExpire(id, jump)
    \/ HourStepTimer

\* studio A taking over and releasing on the hour, with the wall clock
HourSpec == HourInit /\ [][HourNext]_vars

\* ----------------------------------------------------------------- startup
\* a studio name that Studio.names does not know, a state name that is not
\* one of States
UnknownStudio == "Z"
UnknownState == <<"bogus">>

\* what open() and json.load() can find at file_path
FileKinds == {"saved", "missing", "not_json", "missing_keys", "extra_keys",
              "unknown_studio", "x_null", "unknown_state"}

\* the file save() wrote
saved(d) == [kind |-> "saved", x |-> save(d).x, y |-> save(d).y, state |-> save(d).state]

\* files that no save() of a state passing the audit writes
MalformedFiles ==
    { [kind |-> k, x |-> None, y |-> None, state |-> AUTOMAT_ON_AIR] :
        k \in {"missing", "not_json", "missing_keys", "extra_keys"} }
    \cup { [kind |-> "unknown_studio", x |-> UnknownStudio, y |-> None, state |-> STUDIO_X_ON_AIR],
           [kind |-> "unknown_studio", x |-> "A", y |-> UnknownStudio, state |-> STUDIO_X_ON_AIR] }
    \cup { [kind |-> "x_null", x |-> None, y |-> None, state |-> st] :
             st \in {st \in States : Contains(<<"X">>, st) /\ ~Contains(<<"Y">>, st)} }
    \cup { [kind |-> "unknown_state", x |-> v, y |-> None, state |-> UnknownState] : v \in {None, "A"} }

\* the dispatcher after __init__, before load() and start()
Fresh ==
    [state |-> AUTOMAT_ON_AIR, x |-> None, y |-> None, on_air |-> automat_selector_value,
     ref |-> [k \in TimerKinds |-> 0], pending |-> [k \in TimerKinds |-> {}],
     ready |-> <<>>, led |-> [studio \in Studios |-> AllOff], err |-> FALSE]

\* Dispatcher.load() on what is at file_path.  IOError and JSONDecodeError
\* are caught; the TypeError of _save_state(**state), the KeyError of
\* Studio.names[...] and of _change_to_studio are not.  For a state name the
\* machine has no to_ event for, trigger either returns False or raises
\* AttributeError, by the version of the library: `raises` is that choice.
load_file(d, file, raises) ==
    IF file.kind \in {"missing", "not_json"} THEN d
    ELSE IF file.kind \in {"missing_keys", "extra_keys"} THEN [d EXCEPT !.err = TRUE]
    ELSE IF file.x # None /\ file.x \notin Studios THEN [d EXCEPT !.err = TRUE]
    ELSE IF file.x # None /\ file.y # None /\ file.y \notin Studios THEN [d EXCEPT !.x = file.x, !.err = TRUE]
    ELSE LET d1 == load(d, [x |-> file.x, y |-> file.y, state |-> file.state])
         IN IF file.state \notin States /\ raises THEN [d1 EXCEPT !.err = TRUE] ELSE d1

\* Dispatcher.start(): the keepalive loop's first _set_current_state joins
\* the tasks load() has created
start(d) == [d EXCEPT !.ready = Append(@, SetTask)]

\* a new process: __init__, load(), start().  An exception that leaves load()
\* ends the process before start().
Startup(file, raises) ==
    /\ UNCHANGED <<symnet, env>>
    /\ LET d == load_file(Fresh, file, raises)
       IN Commit(IF d.err THEN d ELSE start(d))
    /\ raw' = raw
    /\ queue' = <<>>
    /\ last' = [kind |-> file.kind, trigger |-> ToTrigger(file.state), studio |-> None, task |-> NoTask,
                src |-> state, valid |-> file.state \in States, switch |-> FALSE]

\* the process ends (_cleanup saves) and a new one starts on the saved file
Restart == Startup(saved(D), FALSE)

NextRestart ==
    \/ Next
    \/ Restart

\* button events, timer expiries, the keepalive loop and restarts
SpecRestart == Init /\ [][NextRestart]_vars

\* the process lives: its last startup was not ended by an exception
Running == ~(err /\ last.kind \in FileKinds)

NextStartup ==
    \/ Running /\ Next
    \/ Running /\ Restart
    \/ \E file \in MalformedFiles, raises \in BOOLEAN : Startup(file, raises)

\* the same, with startups on a missing or malformed file
SpecStartup == Init /\ [][NextStartup]_vars

\* the files load() reads on the running dispatcher: what save() wrote at
\* some earlier time with studio A in x or none
LoadFiles == { f \in Snapshots : f.x \in {"A", None} /\ f.y = None }

\* load() of such a file, called while every unfinished timer task is the one
\* its holder names
LoadAny(f) ==
    /\ \A k \in TimerKinds : Live(D, k, NoTask) \subseteq {ref[k]}
    /\ Load(f)

NextLoadAny ==
    \/ Next
    \/ \E f \in LoadFiles : LoadAny(f)

\* button events, timers and the keepalive loop, with load() of an earlier
\* file called on the running dispatcher
SpecLoadAny == Init /\ [][NextLoadAny]_vars


\* ------------------------------------------------------------ SymNet device
\* bounds of the device model
MaxCallbacks == 2
MaxPushed == 2
MaxAwaiting == 1
MaxTime == 12

\* the steps of the clock, the position counts of the selector, the positions set
TickSteps == {6}
PositionCounts == {2, 3, 4, 7, 65535, 65536, 65537}
Positions(count) == {1, 2, 3, 5, 32769, count - 1, count} \cap 1..count

\* lines the device sends
R_42_17000 == str_of(42) \o <<" ">> \o str_of(17000)
R_4_65535 == str_of(4) \o <<" ">> \o str_of(65535)
R_42_123456 == str_of(42) \o <<" ">> \o str_of(123456)
P_42_17000 == <<"#", "0", "0", "0", "4", "2", "=", "1", "7", "0", "0", "0">>
P_43_minus_1 == <<"#", "0", "0", "0", "4", "3", "=", "-", "0", "0", "0", "1">>
P_42_abcd == <<"#", "0", "0", "0", "4", "2", "=", "a", "b", "c", "d">>
P_0042_17000 == <<"#", "0", "0", "4", "2", "=", "1", "7", "0", "0", "0">>
P_42_999 == <<"#", "0", "0", "0", "4", "2", "=", "9", "9", "9">>
P_4_65535 == <<"#", "0", "0", "0", "0", "4", "=", "6", "5", "5", "3", "5">>

\* the datagrams received, as data_str.split('\r')
Datagrams ==
    { <<NAK, <<>>>>,
      <<ACK, <<>>>>,
      <<<<>>, NAK, <<>>>>,
      <<R_42_17000, <<>>>>,
      <<R_4_65535, <<>>>>,
      <<R_42_123456, <<>>>>,
      <<P_42_17000, <<>>>>,
      <<P_42_17000, P_43_minus_1, <<>>>>,
      <<P_42_abcd, <<>>>>,
      <<P_0042_17000, P_4_65535, P_42_999, <<>>>> }

\* the record a step starts from
Begin(kind, cn) == [symnet EXCEPT !.last = Quiet(kind, cn)]

\* time passes
Tick(dt) ==
    /\ symnet.now + dt <= MaxTime
    /\ symnet' = [Begin("tick", 0) EXCEPT !.now = @ + dt]
    /\ UNCHANGED <<dispatcher_vars, env>>

\* SymNetSelectorController.set_position up to its await
SetPosition(position) ==
    /\ Len(symnet.callback_queue) < MaxCallbacks
    /\ 1 <= position /\ position <= symnet.position_count
    /\ symnet' = assure_current_state(
                    set_raw_value([Begin("set_position", Selector) EXCEPT !.last.position = position],
                                  Selector, selector_raw(symnet.position_count, position)),
                    Selector, "set")
    /\ UNCHANGED <<dispatcher_vars, env>>

\* SymNetSelectorController.get_position: the cached value, or up to the
\* await of the GS2 response
GetPosition ==
    LET got == get_raw_value(Begin("get_position", Selector), Selector, "get_position")
    IN /\ got[2] => Len(symnet.callback_queue) < MaxCallbacks
       /\ symnet' = IF got[2] THEN got[1]
                    ELSE [got[1] EXCEPT !.last.returned =
                            selector_position(symnet.position_count, symnet.raw_value[Selector])]
       /\ UNCHANGED <<dispatcher_vars, env>>

\* SymNetButtonController.pressed (1: True, 0: False)
Pressed ==
    LET got == get_raw_value(Begin("pressed", ButtonController), ButtonController, "pressed")
    IN /\ got[2] => Len(symnet.callback_queue) < MaxCallbacks
       /\ symnet' = IF got[2] THEN got[1]
                    ELSE [got[1] EXCEPT !.last.returned = IF symnet.raw_value[ButtonController] > 0 THEN 1 ELSE 0]
       /\ UNCHANGED <<dispatcher_vars, env>>

\* a datagram arrives
Datagram(parts) ==
    /\ Len(symnet.state_queue) + Len(pushed(non_empty(parts))) <= MaxPushed
    /\ Len(symnet.awaiting) < MaxAwaiting
    /\ symnet' = datagram_received([Begin("datagram", 0) EXCEPT !.last.data = parts], parts)
    /\ UNCHANGED <<dispatcher_vars, env>>

\* the push task takes a state from the channel
ProcessPush ==
    /\ symnet.state_queue # <<>>
    /\ symnet' = process_push_messages(Begin("push", Head(symnet.state_queue).controller_number))
    /\ UNCHANGED <<dispatcher_vars, env>>

\* the coroutine awaiting a completed future resumes: get_position and
\* pressed return the value now cached (or the exception leaves them)
Wake ==
    /\ symnet.awaiting # <<>>
    /\ LET w == Head(symnet.awaiting)
           value == symnet.raw_value[w.cb.cn]
       IN symnet' = [Begin("wake", w.cb.cn) EXCEPT
                        !.awaiting = Tail(@),
                        !.last.completed = <<w>>,
                        !.last.returned =
                            IF ~w.ok THEN NoValue
                            ELSE IF w.cb.waiter = "get_position" THEN selector_position(symnet.position_count, value)
                            ELSE IF w.cb.waiter = "pressed" THEN (IF value > 0 THEN 1 ELSE 0)
                            ELSE NoValue]
    /\ UNCHANGED <<dispatcher_vars, env>>

\* the device after its controllers are defined, the dispatcher idle
SymNetInit == DispatcherInit /\ symnet = symnet_init(position_count) /\ env = env_init

SymNetNext ==
    \/ \E dt \in TickSteps : Tick(dt)
    \/ \E position \in {2, position_count} : SetPosition(position)
    \/ GetPosition
    \/ Pressed
    \/ \E parts \in Datagrams : Datagram(parts)
    \/ ProcessPush
    \/ Wake

\* the SymNet device with a selector and a button controller
SymNetSpec == SymNetInit /\ [][SymNetNext]_vars


\* selectors of several position counts, their positions set and read
SelectorInit ==
    /\ DispatcherInit
    /\ symnet \in {symnet_init(count) : count \in PositionCounts}
    /\ env = env_init

SelectorNext ==
    \/ \E dt \in TickSteps : Tick(dt)
    \/ \E position \in Positions(symnet.position_count) : SetPosition(position)
    \/ GetPosition
    \/ \E parts \in {<<ACK, <<>>>>, <<R_42_17000, <<>>>>} : Datagram(parts)
    \/ Wake

SelectorSpec == SelectorInit /\ [][SelectorNext]_vars

\* values outside 0..65535 that the regexes of the protocol accept
R_42_99999 == str_of(42) \o <<" ">> \o str_of(99999)
P_42_minus_1 == <<"#", "0", "0", "0", "4", "2", "=", "-", "0", "0", "0", "1">>
P_4_99999 == <<"#", "0", "0", "0", "0", "4", "=", "9", "9", "9", "9", "9">>

RangeDatagrams ==
    { <<ACK, <<>>>>,
      <<R_42_17000, <<>>>>,
      <<R_42_99999, <<>>>>,
      <<P_42_17000, <<>>>>,
      <<P_42_minus_1, <<>>>>,
      <<P_4_99999, <<>>>> }

RangeNext ==
    \/ \E dt \in TickSteps : Tick(dt)
    \/ \E position \in 1..position_count : SetPosition(position)
    \/ GetPosition
    \/ Pressed
    \/ \E parts \in RangeDatagrams : Datagram(parts)
    \/ ProcessPush
    \/ Wake

\* the device with a DSP that answers and pushes any value the protocol's
\* regexes accept
RangeSpec == SymNetInit /\ [][RangeNext]_vars

\* ----------------------------------------------------------------- cleanup
\* The two tasks waiting for base.cleanup_event: Dispatcher._cleanup and
\* SymNetDevice._cleanup
CleanupWake(who) == [kind |-> "cleanup", timer |-> <<who>>, id |-> 0]

\* the orders in which the waiting tasks can be woken.  asyncio.Event.set()
\* wakes them in the order in which they began to wait: the device's task is
\* created in SymNetDevice.__init__, the dispatcher's in Dispatcher.start()
WakeOrders == {<<"device", "dispatcher">>, <<"dispatcher", "device">>}

\* base.cleanup_event.set(): both tasks become ready.  The button loop was
\* started cleanup aware and is stopped with the event
SetCleanupEvent(order) ==
    /\ env.cleanup = <<>>
    /\ env' = [env EXCEPT !.cleanup = <<"event">>]
    /\ ready' = SelectSeq(ready, LAMBDA e : e # ButtonWake)
                  \o <<CleanupWake(order[1]), CleanupWake(order[2])>>
    /\ last' = Last("cleanup_event", <<>>, None, NoTask)
    /\ UNCHANGED <<state, x, y, on_air, ref, pending, led, err, raw, queue, symnet>>

\* Dispatcher._cleanup after the event: the three timers are stopped and the
\* state is saved
cleanup(d) ==
    stop_immediate_release_timer(stop_immediate_state_timer(stop_next_hour_timer(d, NoTask), NoTask), NoTask)

StepCleanupDispatcher ==
    /\ ready # <<>> /\ Head(ready) = CleanupWake("dispatcher")
    /\ Commit(cleanup(Taken))
    /\ env' = [env EXCEPT !.cleanup = @ \o <<"timers", "save">>,
                          !.saved = Append(@, save(cleanup(Taken)))]
    /\ last' = Last("cleanup", <<>>, None, NoTask)
    /\ UNCHANGED <<raw, queue, symnet>>

\* SymNetDevice._cleanup after the event: the push task is cancelled and the
\* transport closed
StepCleanupDevice ==
    /\ ready # <<>> /\ Head(ready) = CleanupWake("device")
    /\ ready' = Tail(ready)
    /\ env' = [env EXCEPT !.cleanup = @ \o <<"push_task", "transport">>]
    /\ last' = Last("cleanup", <<>>, None, NoTask)
    /\ UNCHANGED <<state, x, y, on_air, ref, pending, led, err, raw, queue, symnet>>

CleanupNext ==
    \/ \E button \in Buttons : env.cleanup = <<>> /\ Press("A", button)
    \/ \E k \in TimerKinds, id \in 1..(MaxTasks + 3) : Expire(k, id)
    \/ StepButton
    \/ StepStart
    \/ StepTimer
    \/ StepCancelled
    \/ StepSet
    \/ \E order \in WakeOrders : SetCleanupEvent(order)
    \/ StepCleanupDispatcher
    \/ StepCleanupDevice

\* the running dispatcher and device until and through the cleanup event
CleanupSpec == Init /\ [][CleanupNext]_vars



\* ---------------------------------------------------------- reconciliation
\* The dispatcher on the selector controller of a SymNetDevice, and the DSP
\* at the other end of the transport.
\* most datagrams lost, most NAKs sent by the DSP
MaxLost == 1
MaxNaks == 1

\* a value of the selector set at the DSP by somebody else
Turned == 17000

\* the keepalive loop is ready to run _set_current_state
KeepaliveWake == [kind |-> "keepalive", timer |-> NoTimer, id |-> 0]

\* Dispatcher.start(): add_observer(self._set_current_state) on the selector,
\* observer "f" of the controller
DispatcherObserver == "f"

\* mutant: the dispatcher does not observe the selector
Notify_nobody(rdy, sn) == rdy

\* base.loop.create_task(clb(...)) in _set_raw_value for the dispatcher's
\* observer: a _set_current_state task per change of the value
Notify(rdy, sn) ==
    rdy \o [i \in 1..Cardinality({j \in 1..Len(sn.last.scheduled) :
                                     /\ sn.last.scheduled[j].clb = DispatcherObserver
                                     /\ sn.last.scheduled[j].controller = Selector}) |-> SetTask]

\* SymNetSelectorController.set_position up to its await
set_position(sn, position, waiter) ==
    assure_current_state(set_raw_value(sn, Selector, selector_raw(sn.position_count, position)),
                         Selector, waiter)

\* _set_current_state runs, in the keepalive loop or as a task of its own
\* (entry action, observer), up to the await of the ACK
StepSetPosition ==
    /\ ready # <<>> /\ Head(ready) \in {SetTask, KeepaliveWake}
    /\ Len(symnet.callback_queue) < MaxCallbacks
    /\ LET waiter == IF Head(ready) = KeepaliveWake THEN "keepalive" ELSE "set"
           asserted == 1 <= on_air /\ on_air <= symnet.position_count
           begun == [Begin("set_position", Selector) EXCEPT !.last.position = on_air]
           sn == IF asserted THEN set_position(begun, on_air, waiter) ELSE begun
       IN /\ symnet' = sn
          /\ ready' = Notify(Tail(ready), sn)
          /\ err' = ~asserted
          /\ env' = [env EXCEPT !.wire = @ \o sn.last.sent,
                                !.keepalive = IF waiter # "keepalive" THEN @
                                              ELSE IF asserted THEN "awaiting" ELSE "dead"]
    /\ last' = Last("set", <<>>, None, NoTask)
    /\ UNCHANGED <<state, x, y, on_air, ref, pending, led, raw, queue>>

\* the sleep of _assure_current_state_loop ends
KeepaliveExpire ==
    /\ env.keepalive = "sleeping"
    /\ env' = [env EXCEPT !.keepalive = "ready"]
    /\ ready' = Append(ready, KeepaliveWake)
    /\ last' = Last("keepalive", <<>>, None, NoTask)
    /\ UNCHANGED <<state, x, y, on_air, ref, pending, led, err, raw, queue, symnet>>

\* what the DSP answers to a command: NAK when it refuses, else ACK to a CS
\* and the value to a GS2
answer(cmd, value, ok) ==
    IF ~ok THEN <<NAK, <<>>>>
    ELSE IF cmd[1] = "CS" THEN <<ACK, <<>>>>
    ELSE <<str_of(cmd[2]) \o <<" ">> \o str_of(value), <<>>>>

\* the DSP's answer to the oldest command arrives: datagram_received
Answer(ok) ==
    /\ env.wire # <<>>
    /\ ~ok => env.naks < MaxNaks
    /\ Len(symnet.awaiting) < MaxAwaiting
    /\ LET cmd == Head(env.wire)
           parts == answer(cmd, env.dsp, ok)
           sn == datagram_received([Begin("datagram", 0) EXCEPT !.last.data = parts], parts)
       IN /\ symnet' = sn
          /\ ready' = Notify(ready, sn)
          /\ env' = [env EXCEPT !.wire = Tail(@),
                                !.dsp = IF ok /\ cmd[1] = "CS" THEN cmd[3] ELSE @,
                                !.naks = IF ok THEN @ ELSE @ + 1]
    /\ last' = Last("datagram", <<>>, None, NoTask)
    /\ UNCHANGED <<state, x, y, on_air, ref, pending, led, err, raw, queue>>

\* the oldest command, or the answer to it, is lost on the way
Lose(applied) ==
    /\ env.wire # <<>>
    /\ env.lost < MaxLost
    /\ applied => Head(env.wire)[1] = "CS"
    /\ env' = [env EXCEPT !.wire = Tail(@),
                          !.dsp = IF applied THEN Head(env.wire)[3] ELSE @,
                          !.lost = @ + 1]
    /\ last' = Last("lost", <<>>, None, NoTask)
    /\ UNCHANGED <<state, x, y, on_air, ref, pending, ready, led, err, raw, queue, symnet>>

\* somebody else sets the selector at the DSP; the DSP pushes the new value
Turn ==
    /\ env.dsp # Turned
    /\ Len(symnet.state_queue) < MaxPushed
    /\ LET parts == <<P_42_17000, <<>>>>
           sn == datagram_received([Begin("datagram", 0) EXCEPT !.last.data = parts], parts)
       IN /\ symnet' = sn
          /\ ready' = Notify(ready, sn)
    /\ env' = [env EXCEPT !.dsp = Turned]
    /\ last' = Last("datagram", <<>>, None, NoTask)
    /\ UNCHANGED <<state, x, y, on_air, ref, pending, led, err, raw, queue>>

\* the push task takes a state from the channel; the observers are scheduled
StepPush ==
    /\ symnet.state_queue # <<>>
    /\ LET sn == process_push_messages(Begin("push", Head(symnet.state_queue).controller_number))
       IN /\ symnet' = sn
          /\ ready' = Notify(ready, sn)
    /\ last' = Last("push", <<>>, None, NoTask)
    /\ UNCHANGED <<state, x, y, on_air, ref, pending, led, err, raw, queue, env>>

\* get_position by another user of the selector: the cached value, or a GS2
\* when the cache is older than value_timeout
Poll ==
    LET got == get_raw_value(Begin("get_position", Selector), Selector, "get_position")
    IN /\ got[2] => Len(symnet.callback_queue) < MaxCallbacks
       /\ symnet' = IF got[2] THEN got[1]
                    ELSE [got[1] EXCEPT !.last.returned =
                            selector_position(symnet.position_count, symnet.raw_value[Selector])]
       /\ env' = [env EXCEPT !.wire = @ \o got[1].last.sent]
       /\ last' = Last("poll", <<>>, None, NoTask)
       /\ UNCHANGED <<state, x, y, on_air, ref, pending, ready, led, err, raw, queue>>

\* mutant: a failed set stops the timers
resumed_stops_timers(d, w, restarted) ==
    IF w.cb.waiter \in {"keepalive", "set"} /\ ~w.ok THEN cleanup(d) ELSE d

\* The coroutine awaiting a completed future resumes.  _set_current_state
\* returns or is left by the exception of _assure_callback; in a task of its
\* own that ends the task.  In _assure_current_state_loop the exception leaves
\* the loop (no try); whether base.start_cleanup_aware_coroutine starts
\* the loop again is not known (restarted)
resumed(d, w, restarted) ==
    IF w.cb.waiter = "keepalive" /\ ~w.ok /\ restarted
    THEN [d EXCEPT !.ready = Append(@, KeepaliveWake)]
    ELSE d

StepResume(restarted) ==
    /\ symnet.awaiting # <<>>
    /\ LET w == Head(symnet.awaiting)
           value == symnet.raw_value[w.cb.cn]
       IN /\ restarted => (w.cb.waiter = "keepalive" /\ ~w.ok)
          /\ symnet' = [Begin("wake", w.cb.cn) EXCEPT
                           !.awaiting = Tail(@),
                           !.last.completed = <<w>>,
                           !.last.returned =
                               IF w.ok /\ w.cb.waiter = "get_position"
                               THEN selector_position(symnet.position_count, value)
                               ELSE NoValue]
          /\ Commit([resumed(D, w, restarted) EXCEPT !.err = ~w.ok])
          /\ env' = [env EXCEPT !.keepalive =
                        IF w.cb.waiter # "keepalive" THEN @
                        ELSE IF w.ok THEN "sleeping"
                        ELSE IF restarted THEN "ready" ELSE "dead"]
    /\ last' = Last("resume", <<>>, None, NoTask)
    /\ UNCHANGED <<raw, queue>>

\* the dispatcher started on the device: the keepalive loop is about to run
ReconcileInit ==
    /\ state = AUTOMAT_ON_AIR
    /\ x = None
    /\ y = None
    /\ on_air = automat_selector_value
    /\ ref = [k \in TimerKinds |-> 0]
    /\ pending = [k \in TimerKinds |-> {}]
    /\ ready = <<KeepaliveWake>>
    /\ led = [s \in Studios |-> AllOff]
    /\ err = FALSE
    /\ raw = 0
    /\ queue = <<>>
    /\ last = [kind |-> "init", trigger |-> <<>>, studio |-> None, task |-> NoTask,
               src |-> AUTOMAT_ON_AIR, valid |-> FALSE, switch |-> FALSE]
    /\ symnet = symnet_init(position_count)
    /\ env = env_init

\* most callbacks ready in the loop when a button is pressed, a sleep ends or
\* the DSP is turned
MaxReady == 2

\* a studio-A button event, the end of a timer's sleep
ButtonPressed == Len(ready) < MaxReady /\ Press("A", "TAKEOVER")
Expired == \E k \in TimerKinds, id \in 1..(MaxTasks + 3) : Len(ready) < MaxReady /\ Expire(k, id)

ReconcileNext ==
    \/ ButtonPressed
    \/ Expired
    \/ StepButton
    \/ StepStart
    \/ StepTimer
    \/ StepSetPosition
    \/ Len(ready) < MaxReady /\ KeepaliveExpire
    \/ Answer(TRUE)
    \/ Len(ready) < MaxReady /\ Turn
    \/ StepPush
    \/ StepResume(FALSE)
    \/ \E dt \in TickSteps : Tick(dt)
    \/ Poll

\* the dispatcher, the device and a DSP that accepts every command, pushes
\* and is polled; with TAKEOVER as the only button no timer is ever cancelled
ReconcileSpec == ReconcileInit /\ [][ReconcileNext]_vars

NakNext ==
    \/ \E button \in {"TAKEOVER", "IMMEDIATE"} : Len(ready) < MaxReady /\ Press("A", button)
    \/ Expired
    \/ StepButton
    \/ StepStart
    \/ StepTimer
    \/ StepCancelled
    \/ StepSetPosition
    \/ Len(ready) < MaxReady /\ KeepaliveExpire
    \/ \E ok \in BOOLEAN : Answer(ok)
    \/ \E restarted \in BOOLEAN : StepResume(restarted)

\* the dispatcher, the device and a DSP that may refuse a command
NakSpec == ReconcileInit /\ [][NakNext]_vars

\* the loop runs the callback at the head of its ready queue, the push task
\* or the awaiter of a completed future
RunReady ==
    \/ StepSetPosition
    \/ StepPush
    \/ \E restarted \in BOOLEAN : StepResume(restarted)

KeepaliveNext ==
    \/ StepSetPosition
    \/ KeepaliveExpire
    \/ \E ok \in BOOLEAN : Answer(ok)
    \/ \E applied \in BOOLEAN : Lose(applied)
    \/ Len(ready) < MaxReady /\ Turn
    \/ StepPush
    \/ \E restarted \in BOOLEAN : StepResume(restarted)

\* The dispatcher with no button pressed, the device and a DSP behind a
\* transport that loses datagrams.  The loop runs every ready callback, every sleep ends, and the
\* DSP answers every command that reaches it; at most MaxLost datagrams are
\* lost and MaxNaks commands refused.
KeepaliveSpec ==
    /\ ReconcileInit
    /\ [][KeepaliveNext]_vars
    /\ WF_vars(RunReady)
    /\ WF_vars(KeepaliveExpire)
    /\ WF_vars(Answer(TRUE))

\* ------------------------------------------------------------ configurations
\* the position counts of the selector controller the dispatcher is built on
ConfigCounts == {2, 3, 4}

\* the assertions of Dispatcher.__init__ on its configuration: the automat
\* value is a position of the selector, no two studios share a value, no
\* studio has the automat's
init_accepts(count) ==
    /\ 1 <= automat_selector_value /\ automat_selector_value <= count
    /\ \A s, t \in Studios : s # t => studios_to_selector_value[s] # studios_to_selector_value[t]
    /\ \A s \in Studios : studios_to_selector_value[s] # automat_selector_value

\* Dispatcher.on_air_studio_name resolves: the automat, or the one studio
\* _selector_value_to_studio holds for the value
on_air_studio_name_resolves(value) ==
    \/ value = automat_selector_value
    \/ Cardinality({s \in Studios : studios_to_selector_value[s] = value}) = 1

\* a dispatcher constructed and started on a selector of any accepted size
ConfigInit ==
    /\ DispatcherInit
    /\ symnet \in {symnet_init(count) : count \in {c \in ConfigCounts : init_accepts(c)}}
    /\ env = env_init

ConfigNext ==
    \/ \E studio \in Studios : Len(ready) < MaxReady /\ Press(studio, "TAKEOVER")
    \/ Expired
    \/ StepButton
    \/ StepStart
    \/ StepTimer
    \/ StepSetPosition
    \/ Answer(TRUE)
    \/ StepResume(FALSE)

\* the dispatcher in every configuration its constructor accepts
ConfigSpec == ConfigInit /\ [][ConfigNext]_vars

\* ------------------------------------------------------ requests in flight
\* most requests unanswered at a time
MaxOutstanding == 3

\* the commands of the protocol
Ops == {"CS", "GS2"}

\* a user of a controller calls _assure_current_state (on, off,
\* set_position) or _retrieve_current_state (_get_raw_value): the callback is
\* queued and the command written, whatever is still unanswered
Request(op, cn) ==
    /\ Len(symnet.callback_queue) < MaxOutstanding
    /\ LET begun == Begin("request", cn)
           sn == IF op = "CS" THEN assure_current_state(begun, cn, "request")
                 ELSE retrieve_current_state(begun, cn, "request")
       IN /\ symnet' = sn
          /\ env' = [env EXCEPT !.wire = @ \o sn.last.sent]
    /\ last' = Last("request", <<>>, None, NoTask)
    /\ UNCHANGED <<state, x, y, on_air, ref, pending, ready, led, err, raw, queue>>

\* the DSP pushes the state of the button
ButtonPush ==
    /\ Len(symnet.state_queue) < MaxPushed
    /\ LET parts == <<P_4_65535, <<>>>>
           sn == datagram_received([Begin("datagram", 0) EXCEPT !.last.data = parts], parts)
       IN /\ symnet' = sn
          /\ ready' = Notify(ready, sn)
    /\ last' = Last("datagram", <<>>, None, NoTask)
    /\ UNCHANGED <<state, x, y, on_air, ref, pending, led, err, raw, queue, env>>

OrderNext ==
    \/ \E op \in Ops, cn \in Controllers : Len(ready) < MaxReady /\ Request(op, cn)
    \/ StepSetPosition
    \/ Answer(TRUE)
    \/ Answer(FALSE)
    \/ Len(ready) < MaxReady /\ ButtonPush
    \/ StepPush
    \/ StepResume(FALSE)

\* requests of several users in flight, each answered once and in the order
\* sent, the DSP pushing states in between
OrderSpec == SymNetInit /\ [][OrderNext]_vars

\* ------------------------------------------------------------------ claims
\* a handler has run a transition of the machine in the last step
Transitioned == last.kind \in {"button", "timer", "load"} /\ last.valid

\* C1: after every fully processed trigger, x is set exactly when the name of
\* the current state contains the token X.
C1_XTokenIffX == (x # None) <=> Contains(<<"X">>, state)

\* C1 witness: the next_hour transition from the release state has cleared x.
C1_Witness ==
    /\ Transitioned /\ last.kind = "timer"
    /\ last.src = FROM_STUDIO_X_CHANGE_TO_AUTOMAT_ON_NEXT_HOUR
    /\ state = AUTOMAT_ON_AIR /\ x = None

\* C2: after every fully processed trigger (switch-to-Y transitions included),
\* y is set exactly when the name of the current state contains the token Y.
C2_YTokenIffY == (y # None) <=> Contains(<<"Y">>, state)

\* C2 witness: a switch-to-Y transition has been processed and left y unset.
C2_Witness ==
    /\ Transitioned /\ last.switch
    /\ last.src = FROM_STUDIO_X_CHANGE_TO_STUDIO_Y_ON_NEXT_HOUR
    /\ state = STUDIO_X_ON_AIR /\ y = None /\ x = "B"

\* the trigger the mapping rule gives for the event, <<>> for none
C3_Expected(event) ==
    IF x = None \/ event.studio = x THEN <<event.button, "X">>
    ELSE IF y = None \/ event.studio = y THEN <<event.button, "Y">>
    ELSE <<>>

\* C3: a button event taken from the queue fires b_X when x is unset or the
\* studio is x, else b_Y when y is unset or the studio is y (the machine then
\* takes that trigger's transition from the current state, if it has one);
\* else nothing is fired and x, y, state, target and timers stay as they are.
C3_ButtonMapping ==
    [][ last'.kind = "button" =>
          LET expected == C3_Expected(Head(queue))
          IN /\ last'.trigger = expected
             /\ expected # <<>> =>
                  \A t \in Matching(state, expected) : state' = t.dest
             /\ (expected = <<>> \/ Matching(state, expected) = {}) => state' = state
             /\ expected = <<>> => UNCHANGED <<x, y, state, on_air, ref, pending>>
      ]_vars

\* C3 witness: an event of a third studio was dropped while x and y are set.
C3_Witness ==
    /\ last.kind = "button" /\ last.trigger = <<>>
    /\ x # None /\ y # None /\ last.studio \notin {x, y}

\* C4: a button trigger or a timer expiry without a transition from the
\* current state raises no error and leaves x, y, the state, the on-air target
\* and the running timers as they are: no timer is started or cancelled (the
\* expired task itself ends), and the pressing studio is not assigned.
C4_InvalidIgnored ==
    [][ (last'.kind \in {"button", "timer"} /\ last'.trigger # <<>> /\ ~last'.valid) =>
          /\ err' = FALSE
          /\ UNCHANGED <<x, y, state, on_air>>
          /\ ready' = Tail(ready)
          /\ \A k \in TimerKinds :
                pending'[k] = pending[k] \ (IF last'.task.timer = k THEN {last'.task.id} ELSE {})
          /\ last'.kind = "button" => UNCHANGED <<ref, pending>>
      ]_vars

\* C4 witness: a timer expired in a state without a transition for its
\* trigger; the state is the one the timer task found.
C4_Witness ==
    /\ last.kind = "timer" /\ last.trigger # <<>> /\ ~last.valid
    /\ state = last.src /\ ~err

\* the on-air target of the two on-air states
C5_Target ==
    /\ state = AUTOMAT_ON_AIR => on_air = automat_selector_value
    /\ state = STUDIO_X_ON_AIR => x # None /\ on_air = studios_to_selector_value[x]

\* C5: in automat_on_air the on-air target is the automat value, in
\* studio_X_on_air it is the selector value of the studio in x, and every
\* transition into one of the two states creates one _set_current_state task.
C5_OnAirTarget ==
    /\ []C5_Target
    /\ [][ (last'.kind \in {"button", "timer", "load"} /\ last'.valid
              /\ state' \in {AUTOMAT_ON_AIR, STUDIO_X_ON_AIR}) =>
             CountKind(ready', "set") = CountKind(ready, "set") + 1 ]_vars

\* C5 witness: a next_hour transition has entered studio_X_on_air with B in x.
C5_Witness ==
    /\ Transitioned /\ last.kind = "timer" /\ last.trigger = NEXT_HOUR
    /\ state = STUDIO_X_ON_AIR /\ x = "B" /\ on_air = 3
    /\ CountKind(ready, "set") >= 1

\* C6: on a transition tagged switch to Y, x takes the former y and y becomes
\* unset before the destination is entered: entering studio_X_on_air makes the
\* target the selector value of the former y, never that of the former x.
C6_SwitchToY ==
    [][ (last'.valid /\ last'.switch) =>
          /\ y # None
          /\ x' = y
          /\ y' = None
          /\ state' = STUDIO_X_ON_AIR =>
                /\ on_air' = studios_to_selector_value[y]
                /\ x # None => on_air' # studios_to_selector_value[x]
      ]_vars

\* C6 witness: with x = A and y = B, next_hour has made x = B, y unset, target 3.
C6_Witness ==
    /\ last.valid /\ last.switch /\ last.kind = "timer"
    /\ state = STUDIO_X_ON_AIR /\ x = "B" /\ y = None /\ on_air = 3
    /\ led["A"] = AllOff

C9_Kept(k) ==
    (last'.kind \in {"button", "timer", "load"} /\ last'.valid
        /\ Contains(k, state) /\ Contains(k, state')) =>
      /\ ref'[k] = ref[k]
      /\ pending'[k] = pending[k]

\* C9: for each of the three timer kinds, a transition whose source and
\* destination both contain the kind's token leaves the running timer of the
\* kind untouched: the same task goes on and no second timer is created.
C9_NoRestart == [][ \A k \in TimerKinds : C9_Kept(k) ]_vars

\* C10: of the immediate-state and of the immediate-release timer, at most one
\* task is pending at any time: a start while one runs creates no timer.
C10_SingleTimer ==
    \A k \in {IMMEDIATE_STATE, IMMEDIATE_RELEASE} : Cardinality(pending[k]) <= 1

\* C11: a cancelled timer never delivers its trigger (a task woken or about to
\* start is one that was not cancelled, and the end of a cancelled task leaves
\* x, y, state and target alone), and the end of a cancelled timer never
\* clears the holder of a newer timer of its kind that is still pending.
C11_CancelledTimer ==
    /\ [](\A k \in TimerKinds, id \in 1..(MaxTasks + 3) :
            (InReady(ready, TimerWake(k, id)) \/ InReady(ready, StartEntry(k, id))) => id \in pending[k])
    /\ [][ last'.kind \in {"cancel", "dropped"} =>
             /\ UNCHANGED <<state, x, y, on_air>>
             /\ \A k \in TimerKinds : ref[k] \in pending[k] => ref'[k] = ref[k]
         ]_vars

\* C12: after every processed trigger each studio has the one LED recipe the
\* row of the current state gives for its role: the x recipe for the studio
\* in x, else the y recipe for the studio in y, else the other recipe.
C12_LedRecipes ==
    \A studio \in Studios :
        led[studio] = IF studio = x THEN led_state_target(state).x
                      ELSE IF studio = y THEN led_state_target(state).y
                      ELSE led_state_target(state).other

\* C12 witness: next_hour has put the former Y studio B on air; A, which held
\* the x recipe of the previous state, now has the other recipe.
C12_Witness ==
    /\ last.kind = "timer" /\ last.valid /\ last.switch
    /\ state = STUDIO_X_ON_AIR /\ x = "B"
    /\ led["B"] = led_state_target(STUDIO_X_ON_AIR).x
    /\ led["A"] = led_state_target(STUDIO_X_ON_AIR).other
    /\ led["B"] # led["A"]

\* C13: a datagram whose only non-empty line is NAK, received while callbacks
\* are pending, fails exactly the head callback, whatever its pattern, and
\* removes it; the other callbacks stay pending in their order and nothing
\* else changes.
C13_NakFailsHead ==
    [][ (symnet'.last.kind = "datagram"
            /\ symnet'.last.data \in {<<NAK, <<>>>>, <<<<>>, NAK, <<>>>>}
            /\ symnet.callback_queue # <<>>) =>
          /\ symnet'.callback_queue = Tail(symnet.callback_queue)
          /\ symnet'.last.completed = <<[cb |-> Head(symnet.callback_queue), ok |-> FALSE]>>
          /\ symnet'.awaiting = Append(symnet.awaiting, [cb |-> Head(symnet.callback_queue), ok |-> FALSE])
          /\ symnet'.raw_value = symnet.raw_value
          /\ symnet'.state_queue = symnet.state_queue
      ]_vars

\* C13 witness: a NAK has failed a GS2 callback at the head; the CS callback
\* behind it is still pending.
C13_Witness ==
    /\ symnet.last.kind = "datagram" /\ symnet.last.data = <<NAK, <<>>>>
    /\ symnet.last.completed = <<[cb |-> [op |-> "GS2", cn |-> Selector, waiter |-> "get_position"], ok |-> FALSE]>>
    /\ symnet.callback_queue = <<[op |-> "CS", cn |-> Selector, waiter |-> "set"]>>

\* the place of the earliest pending GS2 callback of controller n, 0 for none
C14_Earliest(n) ==
    LET q == symnet.callback_queue
        mine == {i \in 1..Len(q) : q[i].op = "GS2" /\ q[i].cn = n}
    IN IF mine = {} THEN 0 ELSE CHOOSE i \in mine : \A j \in mine : i <= j

\* C14: a datagram '<n> <v>\r' completes the earliest pending GS2 callback of
\* controller n, also behind CS callbacks and GS2 callbacks of other
\* controllers; those stay pending in order, the cached value of n becomes v
\* and no other controller's value changes.
C14_Gs2Response ==
    [][ \A n \in Controllers, v \in {17000, 65535} :
          (symnet'.last.kind = "datagram"
              /\ symnet'.last.data = <<str_of(n) \o <<" ">> \o str_of(v), <<>>>>
              /\ C14_Earliest(n) # 0) =>
            /\ symnet'.last.taken = C14_Earliest(n)
            /\ symnet'.callback_queue = remove_at(symnet.callback_queue, C14_Earliest(n))
            /\ symnet'.last.completed = <<[cb |-> symnet.callback_queue[C14_Earliest(n)], ok |-> TRUE]>>
            /\ symnet'.raw_value = [symnet.raw_value EXCEPT ![n] = v]
      ]_vars

\* C14 witness: '42 17000\r' has completed the selector's GS2 callback that
\* was second in the queue, behind the button's GS2 callback.
C14_Witness ==
    /\ symnet.last.kind = "datagram" /\ symnet.last.data = <<R_42_17000, <<>>>>
    /\ symnet.last.taken = 2
    /\ symnet.callback_queue = <<[op |-> "GS2", cn |-> ButtonController, waiter |-> "pressed"]>>
    /\ symnet.raw_value[Selector] = 17000

\* the states the sample datagrams are to push
C15_Expected(parts) ==
    IF parts = <<P_42_17000, <<>>>> THEN <<[controller_number |-> 42, controller_value |-> 17000]>>
    ELSE IF parts = <<P_42_17000, P_43_minus_1, <<>>>>
         THEN <<[controller_number |-> 42, controller_value |-> 17000],
                [controller_number |-> 43, controller_value |-> 0 - 1]>>
    ELSE IF parts = <<P_0042_17000, P_4_65535, P_42_999, <<>>>>
         THEN <<[controller_number |-> 4, controller_value |-> 65535]>>
    ELSE <<>>

\* C15: a datagram that no pending callback takes and that is no lone ACK or
\* NAK enqueues one state per line of the form #NNNNN=VVVVV, in line order,
\* and nothing for any other line.
C15_PushLines ==
    [][ (symnet'.last.kind = "datagram" /\ symnet'.last.taken = 0
            /\ symnet'.last.data \notin {<<NAK, <<>>>>, <<<<>>, NAK, <<>>>>, <<ACK, <<>>>>}) =>
          /\ symnet'.state_queue = symnet.state_queue \o C15_Expected(symnet'.last.data)
          /\ symnet'.last.enqueued = C15_Expected(symnet'.last.data)
          /\ symnet'.callback_queue = symnet.callback_queue
      ]_vars

\* C15 witness: '#00042=17000\r#00043=-0001\r' has enqueued (42, 17000) and
\* then (43, -1) while a callback it does not match stays pending.
C15_Witness ==
    /\ symnet.last.kind = "datagram"
    /\ symnet.last.data = <<P_42_17000, P_43_minus_1, <<>>>>
    /\ symnet.callback_queue # <<>>
    /\ symnet.state_queue = <<[controller_number |-> 42, controller_value |-> 17000],
                              [controller_number |-> 43, controller_value |-> 0 - 1]>>

\* the observer tasks a step has to create for controller cn
C16_Calls(cn) ==
    IF symnet'.raw_value[cn] # symnet.raw_value[cn]
    THEN [i \in 1..Len(observer[cn]) |->
            [clb |-> observer[cn][i], controller |-> cn,
             old_value |-> symnet.raw_value[cn], new_value |-> symnet'.raw_value[cn]]]
    ELSE <<>>

\* C16: a step that assigns a controller's raw value (local set, GS2 response
\* or push) schedules each registered observer once with (old, new) when the
\* value differs from the cached one, and no observer when it is equal.
C16_ObserversOnChange ==
    [][ symnet'.last.scheduled = C16_Calls(Selector) \o C16_Calls(ButtonController) ]_vars

\* C16 witness: the state (42, 17000) was applied from the push channel to a
\* selector that already had the value 17000: no observer was scheduled.
C16_Witness ==
    /\ symnet.last.kind = "push" /\ symnet.last.cn = Selector
    /\ symnet.raw_value[Selector] = 17000
    /\ symnet.raw_value_time[Selector] = symnet.now /\ symnet.now > 0
    /\ symnet.last.scheduled = <<>>

\* C17: a successful GS2 response, a CS acknowledged by ACK and an applied
\* push each start the 10 s in which the cached value is fresh: the value's
\* time is the time of the event; a get within 10 s of it returns the cached
\* value and sends nothing, a later one sends a GS2 and returns the value the
\* response brought.
C17_FreshWindow ==
    [][ /\ (symnet'.last.kind = "datagram" /\ symnet'.last.completed # <<>>
                /\ symnet'.last.completed[1].ok) =>
              symnet'.raw_value_time[symnet'.last.completed[1].cb.cn] = symnet'.now
        /\ (symnet'.last.kind = "push" /\ symnet'.last.cn \in Controllers) =>
              symnet'.raw_value_time[symnet'.last.cn] = symnet'.now
        /\ symnet'.last.kind \in {"get_position", "pressed"} =>
              IF symnet.now - symnet.raw_value_time[symnet'.last.cn] <= value_timeout
              THEN symnet'.last.sent = <<>> /\ symnet'.last.returned # NoValue
              ELSE symnet'.last.sent = <<<<"GS2", symnet'.last.cn>>>> /\ symnet'.last.returned = NoValue
        /\ (symnet'.last.kind = "wake" /\ symnet'.last.completed[1].ok
                /\ symnet'.last.completed[1].cb.waiter = "get_position") =>
              symnet'.last.returned = selector_position(symnet.position_count, symnet.raw_value[Selector])
      ]_vars

\* C18 as stated: for every position count and position, the raw value
\* set_position writes reads back through get_position's mapping as the
\* position set.
C18_RoundTrip ==
    [][ symnet'.last.kind = "set_position" =>
          selector_position(symnet.position_count, symnet'.raw_value[Selector]) = symnet'.last.position
      ]_vars

\* C18 amended: the same for position counts up to 65536.
C18_RoundTripUpTo65536 ==
    [][ (symnet'.last.kind = "set_position" /\ symnet.position_count <= 65536) =>
          selector_position(symnet.position_count, symnet'.raw_value[Selector]) = symnet'.last.position
      ]_vars

\* C18 witness: on a selector of 65536 positions, get_position has returned
\* from the cache the position 65535 that set_position wrote as raw 65534.
C18_Witness ==
    /\ symnet.last.kind = "get_position" /\ symnet.last.sent = <<>>
    /\ symnet.position_count = 65536
    /\ symnet.raw_value[Selector] = 65534
    /\ symnet.last.returned = 65535

\* C19: a new dispatcher that loads the file save() wrote in a reachable
\* state has the same x, y and machine state as the one that saved.
C19_SaveLoad ==
    [][ last'.kind = "saved" => x' = x /\ y' = y /\ state' = state /\ ~err' ]_vars

\* C19 witness: a restart has restored a state with both studios, x = A and
\* y = B.
C19_Witness ==
    /\ last.kind = "saved" /\ last.src = state
    /\ x = "A" /\ y = "B" /\ Contains(<<"Y">>, state)

\* C20: a startup on a missing or malformed file leaves load() without an
\* exception, the dispatcher in its initial state: automat_on_air, x and y
\* unset, the automat as on-air target.
C20_LoadNeverAborts ==
    [][ last'.kind \in FileKinds \ {"saved"} =>
          /\ ~err'
          /\ state' = AUTOMAT_ON_AIR /\ x' = None /\ y' = None
          /\ on_air' = automat_selector_value
      ]_vars

\* C29: in every state reached by button events and timer expiries, x and y,
\* when both are set, are different studios.
C29_XNotY == (x # None /\ y # None) => x # y

\* C29 witness: studio B has requested the takeover while studio A is on air.
C29_Witness ==
    /\ state = STUDIO_X_ON_AIR_STUDIO_Y_TAKEOVER_REQUEST
    /\ x = "A" /\ y = "B"
    /\ last.kind = "button" /\ last.valid /\ last.studio = "B"

\* the states in which the studio in x is on air
C30_StudioOnAir ==
    {STUDIO_X_ON_AIR, STUDIO_X_ON_AIR_IMMEDIATE_STATE, STUDIO_X_ON_AIR_IMMEDIATE_RELEASE,
     STUDIO_X_ON_AIR_STUDIO_Y_TAKEOVER_REQUEST, FROM_STUDIO_X_CHANGE_TO_AUTOMAT_ON_NEXT_HOUR,
     FROM_STUDIO_X_CHANGE_TO_STUDIO_Y_ON_NEXT_HOUR}

\* C30: after load() has restored a recorded state, the on-air target is the
\* selector value of the studio in x when the state has the studio on air,
\* and the automat value when it has the automat on air.
C30_TargetAfterRestart ==
    [][ last'.kind = "saved" =>
          on_air' = IF state' \in C30_StudioOnAir THEN studios_to_selector_value[x']
                    ELSE automat_selector_value
      ]_vars

\* C21: the button queue never holds more than one event and every queued
\* event has exactly one wake-up of the button loop waiting; a put returns
\* only on an empty queue; the button loop takes the oldest event, fires the
\* trigger of that event and leaves the queue without it.
C21_ButtonOrder ==
    /\ [](Len(queue) <= 1 /\ CountKind(ready, "button") = Len(queue))
    /\ [][ last'.kind = "press" =>
             /\ queue = <<>>
             /\ Len(queue') = 1 /\ queue'[1].studio = last'.studio ]_vars
    /\ [][ last'.kind = "button" =>
             /\ queue # <<>>
             /\ queue' = Tail(queue)
             /\ last'.studio = Head(queue).studio
             /\ last'.trigger # <<>> => last'.trigger[1] = Head(queue).button ]_vars

\* C21 witness: the button loop has taken the event of studio B from the
\* queue and fired its trigger; the queue is empty again.
C21_Witness ==
    /\ last.kind = "button" /\ last.valid /\ last.studio = "B"
    /\ queue = <<>> /\ CountKind(ready, "button") = 0

\* C26: the cached raw value of every controller is in 0..65535, whatever
\* set_position calls, GS2 responses and pushes the protocol accepts.
C26_RawRange == \A cn \in Controllers : symnet.raw_value[cn] \in 0..65535

\* C28: states are applied in the order their lines came in: a datagram only
\* appends to the push channel, every other step but the push task leaves it
\* alone, and the push task takes the oldest state, which sets the value of
\* the controller with its number and of no other, and changes nothing when
\* no controller has the number.
C28_PushOrder ==
    [][ /\ symnet'.last.kind = "push" =>
             /\ symnet.state_queue # <<>>
             /\ symnet'.state_queue = Tail(symnet.state_queue)
             /\ symnet'.raw_value =
                   IF Head(symnet.state_queue).controller_number \in Controllers
                   THEN [symnet.raw_value EXCEPT ![Head(symnet.state_queue).controller_number] =
                                                     Head(symnet.state_queue).controller_value]
                   ELSE symnet.raw_value
        /\ symnet'.last.kind = "datagram" =>
             /\ Len(symnet'.state_queue) >= Len(symnet.state_queue)
             /\ SubSeq(symnet'.state_queue, 1, Len(symnet.state_queue)) = symnet.state_queue
        /\ symnet'.last.kind \notin {"push", "datagram"} => symnet'.state_queue = symnet.state_queue
      ]_vars

\* C28 witness: of the states (42, 17000) and (43, -1) of one datagram the
\* first has been applied to the selector; the second is still queued.
C28_Witness ==
    /\ symnet.last.kind = "push" /\ symnet.last.cn = Selector
    /\ symnet.raw_value[Selector] = 17000
    /\ symnet.state_queue = <<[controller_number |-> 43, controller_value |-> 0 - 1]>>

\* C27: the next_hour trigger is fired no earlier than 0.3 s before a full
\* hour (and within the second after it), and, when the clock was set back
\* during a sleep, at the first full hour after the time the clock was set to.
C27_HourTimer ==
    [][ (env'.hour.pc = "fired" /\ env.hour.pc # "fired") =>
          /\ (env'.wall + Margin) % Hour <= 12
          /\ env'.wall < (env.hour.base \div Hour + 1) * Hour + 10
      ]_vars


\* C22: on the cleanup event the three dispatcher timers are cancelled, then
\* (x, y, state) is saved, then the push task is cancelled and the transport
\* closed; the saved tuple is the dispatcher's (x, y, state) at the moment the
\* timers were cancelled, and no timer trigger changes the state after the save.
C22_CleanupOrder ==
    /\ [](\A i \in 1..Len(env.cleanup) :
            env.cleanup[i] \in {"push_task", "transport"} =>
              \E j, k \in 1..(i - 1) : j < k /\ env.cleanup[j] = "timers" /\ env.cleanup[k] = "save")
    /\ [][ Len(env'.saved) > Len(env.saved) =>
             /\ env'.saved[Len(env'.saved)] = [x |-> x, y |-> y, state |-> state]
             /\ \A k \in TimerKinds : ref'[k] = 0 /\ pending'[k] = {}
         ]_vars
    /\ [][ env.saved # <<>> => state' = state ]_vars


\* C23: without a cleanup the keepalive loop issues set_position(target) in
\* every cycle, infinitely often, also after the answer to an earlier CS was
\* lost or was a NAK; once loss and NAKs have stopped the DSP gets the
\* current on-air target again and again.
C23_KeepaliveReconciles ==
    /\ []<>(env.keepalive = "ready")
    /\ []<>(env.dsp = raw_of(on_air))


\* C24: once the dispatcher is started, a pushed or polled selector value that
\* differs from the raw value of the on-air target makes the dispatcher set
\* the position again: a _set_current_state task is scheduled with the change
\* (one is waiting whenever the cached value is not the target's), and when
\* it runs a CS with the raw value of the target is sent and the cached value
\* is the target's again, x, y and the state unchanged.
C24_Reissue ==
    /\ [](symnet.raw_value[Selector] # raw_of(on_air) => InReady(ready, SetTask))
    /\ [][ ( /\ symnet'.last.kind \in {"push", "datagram"}
             /\ symnet'.raw_value[Selector] # symnet.raw_value[Selector] ) =>
               /\ ready' = Append(ready, SetTask)
               /\ <<x', y', state', on_air'>> = <<x, y, state, on_air>>
         ]_vars
    /\ [][ ( /\ symnet'.last.kind = "set_position"
             /\ symnet'.callback_queue # symnet.callback_queue ) =>
               /\ symnet'.last.sent = << <<"CS", Selector, raw_of(on_air)>> >>
               /\ symnet'.raw_value[Selector] = raw_of(on_air)
               /\ <<x', y', state', on_air'>> = <<x, y, state, on_air>>
         ]_vars

\* studio A is on air, the DSP was turned by somebody else, the pushed value
\* reached the cache and the dispatcher has just set the position again
C24_Witness ==
    /\ state = STUDIO_X_ON_AIR
    /\ symnet.last.kind = "set_position"
    /\ symnet.last.sent = << <<"CS", Selector, raw_of(studios_to_selector_value["A"])>> >>
    /\ \E j \in 1..Len(symnet.last.scheduled) : symnet.last.scheduled[j].old_value = Turned

\* a failed CS: the step in which its NAK arrives or its awaiter resumes
C25_NakStep ==
    /\ symnet'.last.kind \in {"datagram", "wake"}
    /\ symnet' # symnet
    /\ symnet'.last.completed # <<>>
    /\ symnet'.last.completed[1].cb.op = "CS"
    /\ ~symnet'.last.completed[1].ok

\* C25: a NAK to a CS of the dispatcher fails the one awaited operation only:
\* x, y, the state and the target stay, no timer is cancelled or started, no
\* trigger is scheduled again.
C25_NakSurfaced ==
    [][ C25_NakStep =>
          /\ <<x', y', state', on_air'>> = <<x, y, state, on_air>>
          /\ ref' = ref /\ pending' = pending /\ queue' = queue /\ led' = led
          /\ ready' \in {ready, Append(ready, KeepaliveWake)}
          /\ symnet'.last.kind = "datagram" =>
               /\ Len(symnet'.callback_queue) = Len(symnet.callback_queue) - 1
               /\ symnet'.awaiting = Append(symnet.awaiting, symnet'.last.completed[1])
      ]_vars

\* the awaiter of a refused CS has resumed while a timer of the dispatcher runs
C25_Witness ==
    /\ symnet.last.kind = "wake"
    /\ symnet.last.completed # <<>>
    /\ symnet.last.completed[1].cb.op = "CS"
    /\ ~symnet.last.completed[1].ok
    /\ \E k \in TimerKinds : ref[k] # 0 /\ pending[k] # {}


\* the set_position calls still to come if nothing else happens: the
\* _set_current_state runs waiting in the loop, and one more when the cached
\* value is not the target's (the next run will change it and be observed)
C31_Pending(rdy, sn, target) ==
    Cardinality({i \in 1..Len(rdy) : rdy[i] \in {SetTask, KeepaliveWake}})
      + (IF sn.raw_value[Selector] # raw_of(target) THEN 1 ELSE 0)

\* a run of _set_current_state
C31_SetStep ==
    /\ symnet'.last.kind = "set_position"
    /\ symnet'.callback_queue # symnet.callback_queue

\* C31: observer-driven reconciliation terminates.  Every set_position of the
\* dispatcher uses up one of the pending runs; a run that finds the cached
\* value at the target's schedules no observer; any other step (a push, a
\* polled value, a new target, the keepalive loop) adds at most two runs.  So
\* one change of the cached value causes at most two CS commands.
C31_ReconciliationTerminates ==
    /\ [][ C31_SetStep =>
             C31_Pending(ready', symnet', on_air') = C31_Pending(ready, symnet, on_air) - 1 ]_vars
    /\ [][ (C31_SetStep /\ symnet.raw_value[Selector] = raw_of(on_air)) =>
             (ready' = Tail(ready) /\ symnet'.last.scheduled = <<>>) ]_vars
    /\ [][ ~C31_SetStep =>
             C31_Pending(ready', symnet', on_air') <= C31_Pending(ready, symnet, on_air) + 2 ]_vars

\* studio A on air after a push of another value: the second set_position
\* has run, found the value in place and left nothing to do
C31_Witness ==
    /\ on_air = studios_to_selector_value["A"]
    /\ env.dsp = Turned
    /\ symnet.last.kind = "set_position"
    /\ symnet.last.scheduled = <<>>
    /\ Len(symnet.callback_queue) = 2
    /\ symnet.state_queue = <<>>
    /\ C31_Pending(ready, symnet, on_air) = 0


\* C32: in every configuration the constructor accepts the on-air target is a
\* position of the selector, 1..position_count, and the automat's value or
\* that of exactly one studio: on_air_studio_name resolves and the assertion
\* of set_position holds (the CS is written).
C32_TargetValid ==
    /\ on_air_studio_name_resolves(on_air)
    /\ 1 <= on_air /\ on_air <= symnet.position_count
    /\ symnet.last.kind = "set_position" => symnet.last.sent # <<>>


\* C33: with several requests in flight (CS and GS2, selector and button),
\* answered once each and in the order sent with nothing lost, the pending
\* callbacks are the unanswered requests in their order; an answer completes
\* the callback of its own request, the oldest, once (success for ACK or a
\* value line, failure for NAK) and no other; a pushed datagram completes
\* none; when every answer has arrived no callback is pending.
C33_Aligned ==
    /\ Len(symnet.callback_queue) = Len(env.wire)
    /\ \A i \in 1..Len(env.wire) :
          /\ symnet.callback_queue[i].op = env.wire[i][1]
          /\ symnet.callback_queue[i].cn = env.wire[i][2]
C33_AnswerStep ==
    /\ symnet'.last.kind = "datagram"
    /\ env'.wire # env.wire
C33_PushStep ==
    /\ symnet'.last.kind = "datagram"
    /\ env'.wire = env.wire
C33_Done ==
    [cb |-> Head(symnet.callback_queue), ok |-> symnet'.last.data # <<NAK, <<>>>>]
C33_AnswersInOrder ==
    /\ [](C33_Aligned /\ (env.wire = <<>> => symnet.callback_queue = <<>>))
    /\ [][ C33_AnswerStep =>
             /\ symnet'.last.taken = 1
             /\ symnet'.last.completed = <<C33_Done>>
             /\ symnet'.callback_queue = Tail(symnet.callback_queue)
             /\ symnet'.awaiting = Append(symnet.awaiting, C33_Done) ]_vars
    /\ [][ C33_PushStep =>
             /\ symnet'.last.taken = 0
             /\ symnet'.last.completed = <<>>
             /\ symnet'.callback_queue = symnet.callback_queue
             /\ symnet'.awaiting = symnet.awaiting ]_vars
C33_Witness ==
    /\ symnet.last.kind = "datagram"
    /\ symnet.last.data = <<NAK, <<>>>>
    /\ symnet.last.taken = 1
    /\ symnet.last.completed # <<>>
    /\ symnet.last.completed[1].cb.op = "GS2"
    /\ symnet.last.completed[1].cb.cn = ButtonController
    /\ ~symnet.last.completed[1].ok
    /\ Len(symnet.callback_queue) = 2
    /\ symnet.callback_queue[1].op = "CS"
    /\ symnet.callback_queue[1].cn = Selector
    /\ symnet.callback_queue[2].op = "GS2"
    /\ symnet.state_queue # <<>>

====
